---- MODULE Spec2Model ----
(***************************************************************************)
(* Set-associative LRU cache simulator driven by a trace DSL.              *)
(*                                                                         *)
(* The cache (src/src/lru.rs), the trace expander (src/src/trace.rs) and   *)
(* the replay driver (src/src/simulation.rs) are modelled as one state     *)
(* machine.  Two specifications are given:                                 *)
(*   SpecCache  the cache used directly through new / get / reset          *)
(*   Spec       Simulation::simulate replaying the traces of a trace file  *)
(***************************************************************************)
EXTENDS Integers, Sequences, FiniteSets, TLC

VARIABLES
    cfg,          \* the const generics <SETS, WAYS, LINE_SIZE> of the cache
    pc,           \* position of the program
    cache,        \* the LruCache value
    source,       \* the trace file text, as the tree its parsers read
    parsed,       \* what TraceFile::try_from returned for the text
    file,         \* the validated TraceFile being simulated
    run,          \* number of the current call of Simulation::simulate
    trace_idx,    \* index of the trace being replayed (iterator over traces)
    queue,        \* work stack of Trace::into_iter (last element = top)
    rng,          \* state of the StdRng of the running expansion
    addresses,    \* output vector of Trace::into_iter
    ip,           \* position of the fold over the expanded instructions
    i,            \* byte index of the inner loop of the fold
    hit,          \* the local `hit` of the fold closure
    hit_count,    \* Simulation.hit_count of the running fold
    miss_count,   \* Simulation.miss_count of the running fold
    results,      \* the collected Vec<Simulation>
    lastResult,   \* history: value returned by the latest LruCache::get
    lastAddress,  \* history: address of the latest LruCache::get since the reset
    robin,        \* history: the round the gets since the reset make in one set
    output,       \* what the entry point has printed or returned in this run
    input,        \* the characters handed to the integer parsers
    lexed,        \* what the integer parsers returned for `input`
    wide,         \* the same accesses in a cache with more ways
    nAccess,      \* history: number of get calls since construction / reset
    recent,       \* history: per set, tags accessed since reset, latest first
    resetFrom,    \* history: was the cache empty when reset was last called
    accLog,       \* history: get calls issued for the current instruction
    choices,      \* history: switch cases chosen by the running expansion
    log           \* history: one entry per finished trace replay

vars == << cfg, pc, cache, source, parsed, file, run, trace_idx, queue, rng, addresses, ip, i,
           hit, hit_count, miss_count, results, lastResult, lastAddress, robin, output, input, lexed, wide, nAccess, recent,
           resetFrom, accLog, choices, log >>

simVars == << file, run, trace_idx, queue, rng, addresses, ip, i, hit,
              hit_count, miss_count, results, accLog, choices, log >>

-----------------------------------------------------------------------------
(* Bounds of the model *)

\* addresses used by direct get calls are 0 .. MaxAddr-1
MaxAddr == 10

\* number of get calls issued between two resets in SpecCache
MaxGets == 4

\* largest way count of a checked configuration
MaxWays == 2

\* Simulation::simulate is called at most MaxRuns times on the same file
MaxRuns == 2

\* trace files: range starts 0 .. MaxStart, loop counts 0 .. MaxLoop and
\* switch weights 0 .. MaxWeight
MaxStart == 2
MaxLoop == 2
MaxWeight == 1

\* number of states of the modelled generator
RngModulus == 16

-----------------------------------------------------------------------------
(* Values *)

\* Option<usize>
None == [some |-> FALSE, value |-> 0]
Some(x) == [some |-> TRUE, value |-> x]

\* enum CacheHit
Hit == [kind |-> "Hit", prev |-> None]
Miss(prev) == [kind |-> "Miss", prev |-> prev]
\* outcome of a call that panics (an unwrap() on None, an index out of range)
Panic == [kind |-> "Panic", prev |-> None]
NoResult == [kind |-> "none", prev |-> None]

\* usize is 64 bits wide on the targets of the program
WordBits == 64

Min(S) == CHOOSE x \in S : \A y \in S : x <= y

RemoveAt(s, k) == SubSeq(s, 1, k - 1) \o SubSeq(s, k + 1, Len(s))

-----------------------------------------------------------------------------
(* struct CacheSet *)

CacheLineEmpty == [address |-> None, tag |-> None]

\* a constructor that fills the deque in descending order
CacheSet_new_Reversed(LINES) ==
    [lines |-> [w \in 0 .. LINES - 1 |-> CacheLineEmpty],
     lru   |-> [k \in 1 .. LINES |-> LINES - k]]

\* CacheSet::new: all lines empty, lru = 0, 1, ..., LINES-1 (front first)
CacheSet_new(LINES) ==
    [lines |-> [w \in 0 .. LINES - 1 |-> CacheLineEmpty],
     lru   |-> [k \in 1 .. LINES |-> k - 1]]

\* a search that compares the wrong field of the line
FindLine_ByAddressField(lines, tag) ==
    {w \in DOMAIN lines : lines[w].address = Some(tag)}

\* a search that takes any filled line for the line looked for
FindLine_AnyOccupied(lines, tag) == {w \in DOMAIN lines : lines[w].tag.some}

\* the linear search of CacheSet::get: ways whose tag is Some(tag)
FindLine(lines, tag) == {w \in DOMAIN lines : lines[w].tag = Some(tag)}

\* a hit that pushes the way without removing its old entry
LruTouch_NoRemove(lru, line_idx) == Append(lru, line_idx)

\* a hit that pushes the way at the front of the deque
LruTouch_ToFront(lru, line_idx) ==
    LET found == {k \in 1 .. Len(lru) : lru[k] = line_idx}
    IN  << line_idx >> \o RemoveAt(lru, Min(found))

\* hit branch: the way is removed from the lru deque and pushed at the back
\* a hit that leaves the order as it is: ways are replaced in the order in
\* which they were filled
LruTouch_Keep(lru, line_idx) == lru

LruTouch(lru, line_idx) ==
    LET found == {k \in 1 .. Len(lru) : lru[k] = line_idx}
    IN  Append(RemoveAt(lru, Min(found)), line_idx)

\* a miss branch that leaves the victim at the front of the deque
LruRotate_Stay(lru) == lru

\* miss branch: the front of the deque is popped and pushed at the back
LruRotate(lru) == Append(Tail(lru), Head(lru))

\* prev read after the line has been overwritten
MissPrev_AfterWrite(lines, victim, address) == Some(address)

\* a miss that forgets what the line held
MissPrev_Forget(lines, victim, address) == None

\* miss branch: the value reported as prev, read before the line is written
MissPrev(lines, victim, address) == lines[victim].address

\* a miss that writes the new tag and keeps the address the line held
CacheSet_get_KeepAddress(set, address, tag) ==
    LET found == FindLine(set.lines, tag)
    IN  IF found # {}
        THEN [set    |-> [set EXCEPT !.lru = LruTouch(@, Min(found))],
              result |-> Hit]
        ELSE IF set.lru = << >>
             THEN [set |-> set, result |-> Panic]
             ELSE LET victim == Head(set.lru)
                  IN  [set |-> [lines |-> [set.lines EXCEPT ![victim] =
                                             [address |-> set.lines[victim].address,
                                              tag     |-> Some(tag)]],
                                lru   |-> LruRotate(set.lru)],
                       result |-> Miss(MissPrev(set.lines, victim, address))]

\* CacheSet::get(address, tag): the new set and the CacheHit returned
CacheSet_get(set, address, tag) ==
    LET found == FindLine(set.lines, tag)
    IN  IF found # {}
        THEN LET line_idx == Min(found)
             IN  IF \A k \in 1 .. Len(set.lru) : set.lru[k] # line_idx
                 THEN [set |-> set, result |-> Panic]
                 ELSE [set    |-> [set EXCEPT !.lru = LruTouch(@, line_idx)],
                       result |-> Hit]
        ELSE IF set.lru = << >>
             THEN [set |-> set, result |-> Panic]
             ELSE LET victim == Head(set.lru)
                  IN  [set |-> [lines |-> [set.lines EXCEPT ![victim] =
                                             [address |-> Some(address),
                                              tag     |-> Some(tag)]],
                                lru   |-> LruRotate(set.lru)],
                       result |-> Miss(MissPrev(set.lines, victim, address))]

-----------------------------------------------------------------------------
(* struct LruCache *)

RECURSIVE ilog2(_)
ilog2(x) == IF x \div 2 = 0 THEN 0 ELSE 1 + ilog2(x \div 2)

\* required_bits(i) = (i - 1).ilog2() + 1; i - 1 underflows for i = 0 and
\* ilog2 panics on 0, so the function has no value for i <= 1
required_bits_defined(n) == n - 1 > 0
required_bits(n) == ilog2(n - 1) + 1

\* value of `cache` before construction and after a failed construction
NoCache == [offset_width |-> 0, set_index_width |-> 0, set_index_mask |-> 0,
            sets |-> << >>]

\* LruCache::new succeeds iff both required_bits calls have a value and the
\* const assertion on the address width holds
LruCache_new_ok(c) ==
    /\ required_bits_defined(c.SETS)
    /\ required_bits_defined(c.LINE_SIZE)
    /\ required_bits(c.SETS) + required_bits(c.LINE_SIZE) <= WordBits

LruCache_new(c) ==
    [offset_width    |-> required_bits(c.LINE_SIZE),
     set_index_width |-> required_bits(c.SETS),
     set_index_mask  |-> (2 ^ required_bits(c.SETS)) - 1,
     sets            |-> [s \in 0 .. c.SETS - 1 |-> CacheSet_new(c.WAYS)]]

set_index_of(ch, address) ==
    (address \div (2 ^ ch.offset_width)) % (ch.set_index_mask + 1)

\* a tag that keeps the set-index bits of the address
tag_of_OffsetOnly(ch, address) == address \div (2 ^ ch.offset_width)

tag_of(ch, address) ==
    address \div (2 ^ (ch.set_index_width + ch.offset_width))

\* a get that looks the tag up in every set, not only in the indexed one
LruCache_get_AllSets(ch, address) ==
    LET set_index == set_index_of(ch, address)
        tag       == tag_of(ch, address)
    IN  IF set_index \notin DOMAIN ch.sets
        THEN [cache |-> ch, result |-> Panic]
        ELSE [cache  |-> [ch EXCEPT !.sets =
                             [s \in DOMAIN ch.sets |->
                                 CacheSet_get(ch.sets[s], address, tag).set]],
              result |-> CacheSet_get(ch.sets[set_index], address, tag).result]

\* LruCache::get(address): the new cache and the CacheHit returned
LruCache_get(ch, address) ==
    LET set_index == set_index_of(ch, address)
        tag       == tag_of(ch, address)
    IN  IF set_index \notin DOMAIN ch.sets
        THEN [cache |-> ch, result |-> Panic]
        ELSE LET r == CacheSet_get(ch.sets[set_index], address, tag)
             IN  [cache  |-> [ch EXCEPT !.sets[set_index] = r.set],
                  result |-> r.result]

\* LruCache::reset(): every set as CacheSet::new leaves it
LruCache_reset(ch) ==
    [ch EXCEPT !.sets = [s \in DOMAIN ch.sets |->
                            CacheSet_new(Cardinality(DOMAIN ch.sets[s].lines))]]

IsEmptyCache(ch) ==
    \A s \in DOMAIN ch.sets : \A w \in DOMAIN ch.sets[s].lines :
        ch.sets[s].lines[w] = CacheLineEmpty

-----------------------------------------------------------------------------
(* History of the accesses *)

\* the tags of a set by recency: tag moved (or added) to the front
MoveToFront(s, t) ==
    << t >> \o SelectSeq(s, LAMBDA x : x # t)

RecentAfter(rc, ch, address) ==
    LET s == set_index_of(ch, address)
    IN  IF s \in DOMAIN rc
        THEN [rc EXCEPT ![s] = MoveToFront(@, tag_of(ch, address))]
        ELSE rc

NoRecent(ch) == [s \in DOMAIN ch.sets |-> << >>]

\* the gets since the reset as a round over the tags of one set: `order`
\* holds the tags in the order of their first access, `pos` is 0 during
\* the first round and afterwards the place in `order` of the tag whose
\* turn is next
NoRobin == [ok |-> TRUE, set |-> 0, order |-> << >>, pos |-> 0]
BrokenRobin == [ok |-> FALSE, set |-> 0, order |-> << >>, pos |-> 0]

RobinAfter(rb, ch, address) ==
    LET s == set_index_of(ch, address)
        t == tag_of(ch, address)
        k == Len(rb.order)
    IN  IF ~rb.ok \/ (k > 0 /\ s # rb.set)
        THEN BrokenRobin
        ELSE IF rb.pos = 0
        THEN IF t \notin {rb.order[j] : j \in 1 .. k}
             THEN [ok |-> TRUE, set |-> s, order |-> Append(rb.order, t), pos |-> 0]
             ELSE IF t = rb.order[1]
             THEN [rb EXCEPT !.pos = (1 % k) + 1]
             ELSE BrokenRobin
        ELSE IF t = rb.order[rb.pos]
        THEN [rb EXCEPT !.pos = (rb.pos % k) + 1]
        ELSE BrokenRobin

-----------------------------------------------------------------------------
(* Configurations *)

SetsChoices == {1, 2}
LineSizeChoices == {1, 2}

Configs ==
    [SETS : SetsChoices, WAYS : 1 .. MaxWays, LINE_SIZE : LineSizeChoices]

EmptyFile == [functions |-> << >>, traces |-> << >>]

\* no parser has been called on `input`
NotLexed == [integer |-> [kind |-> "none"], decimal_integer |-> [kind |-> "none"]]

\* no trace file text has been given
NoSource == [function_list |-> << >>, trace_blocks |-> << >>]

-----------------------------------------------------------------------------
(* SpecCache: the cache used through its public functions *)

InitCache ==
    /\ cfg \in Configs
    /\ pc = "start"
    /\ cache = NoCache
    /\ source = NoSource
    /\ parsed = "none"
    /\ file = EmptyFile
    /\ run = 0
    /\ trace_idx = 0
    /\ queue = << >>
    /\ rng = 0
    /\ addresses = << >>
    /\ ip = 0
    /\ i = 0
    /\ hit = TRUE
    /\ hit_count = 0
    /\ miss_count = 0
    /\ results = << >>
    /\ lastResult = NoResult
    /\ lastAddress = 0
    /\ robin = NoRobin
    /\ output = << >>
    /\ input = << >>
    /\ lexed = NotLexed
    /\ wide = NoCache
    /\ nAccess = 0
    /\ recent = << >>
    /\ resetFrom = "none"
    /\ accLog = << >>
    /\ choices = << >>
    /\ log = << >>

\* let mut lru_cache: LruCache<SETS, WAYS, LINE_SIZE> = LruCache::new();
New ==
    /\ pc = "start"
    /\ IF LruCache_new_ok(cfg)
       THEN /\ cache' = LruCache_new(cfg)
            /\ recent' = NoRecent(LruCache_new(cfg))
            /\ pc' = "idle"
       ELSE /\ pc' = "panicked"
            /\ UNCHANGED << cache, recent >>
    /\ UNCHANGED << cfg, source, parsed, lastResult, lastAddress, robin, output, input, lexed, wide, nAccess, resetFrom >>
    /\ UNCHANGED simVars

\* lru_cache.get(address), called directly
Get(address) ==
    /\ pc = "idle"
    /\ nAccess < MaxGets
    /\ LET r == LruCache_get(cache, address)
       IN  /\ cache' = r.cache
           /\ lastResult' = r.result
           /\ lastAddress' = address
           /\ robin' = RobinAfter(robin, cache, address)
           /\ UNCHANGED << output, input, lexed, wide >>
           /\ recent' = RecentAfter(recent, cache, address)
           /\ pc' = IF r.result = Panic THEN "panicked" ELSE "idle"
    /\ nAccess' = nAccess + 1
    /\ UNCHANGED << cfg, source, parsed, resetFrom >>
    /\ UNCHANGED simVars

\* lru_cache.reset(), called directly
Reset ==
    /\ pc = "idle"
    /\ cache' = LruCache_reset(cache)
    /\ resetFrom' = IF IsEmptyCache(cache) THEN "empty" ELSE "used"
    /\ nAccess' = 0
    /\ recent' = NoRecent(cache)
    /\ lastResult' = NoResult
    /\ lastAddress' = 0
    /\ robin' = NoRobin
    /\ UNCHANGED << output, input, lexed, wide >>
    /\ UNCHANGED << cfg, source, parsed, pc >>
    /\ UNCHANGED simVars

NextCache ==
    \/ New
    \/ \E address \in 0 .. MaxAddr - 1 : Get(address)
    \/ Reset

SpecCache == InitCache /\ [][NextCache]_vars

-----------------------------------------------------------------------------
(* Trace AST: enum Op, struct Block, struct SwitchCase, struct Function *)

RangeOp(addr_start, addr_size, addr_end) ==
    [kind |-> "Range", addr_start |-> addr_start, addr_size |-> addr_size,
     addr_end |-> addr_end]
FunctionCallOp(function_name) ==
    [kind |-> "FunctionCall", function_name |-> function_name]
LoopOp(count, block) == [kind |-> "Loop", count |-> count, block |-> block]
SwitchOp(cases) == [kind |-> "Switch", cases |-> cases]
SwitchCase(weight, block) == [weight |-> weight, block |-> block]

Reverse(s) == [k \in 1 .. Len(s) |-> s[Len(s) + 1 - k]]

\* a loop that pushes its body once whatever its count, unless the count is 0
Repeat_Once(s, n) == IF n = 0 THEN << >> ELSE s

RECURSIVE Repeat(_, _)
Repeat(s, n) == IF n = 0 THEN << >> ELSE s \o Repeat(s, n - 1)

\* struct Instruction { address, length }: length in bits
Instruction(address, length) == [address |-> address, length |-> length]

\* a range that includes its end: (addr_start..=addr_end)
RangeAddrs_Inclusive(op) ==
    LET step == op.addr_size \div 8
        n    == (op.addr_end - op.addr_start) \div step + 1
    IN  [k \in 1 .. n |-> op.addr_start + (k - 1) * step]

\* (addr_start..addr_end).step_by(addr_size / 8)
RangeAddrs(op) ==
    LET step == op.addr_size \div 8
        n    == (op.addr_end - op.addr_start + step - 1) \div step
    IN  [k \in 1 .. n |-> op.addr_start + (k - 1) * step]

\* the instructions a Range op appends to the output
RangeInstrs(op) ==
    LET a == RangeAddrs(op)
    IN  [k \in 1 .. Len(a) |-> Instruction(a[k], op.addr_size)]

-----------------------------------------------------------------------------
(* Weighted selection of a switch case *)

\* StdRng::seed_from_u64 and one step of the generator: a fixed function of
\* the state, here a full-period linear congruential step
seed_from_u64(seed) == seed % RngModulus
rng_next(s) == (5 * s + 3) % RngModulus

\* rng.random_range(0..=total_weights): a value of 0 .. total_weights
\* determined by the state of the generator
random_range(s, total_weights) == rng_next(s) % (total_weights + 1)

\* a sort that puts the later of two cases of equal weight first
SortedWeights_Unstable(cases) ==
    LET Before(a, b) == \/ cases[a].weight < cases[b].weight
                        \/ cases[a].weight = cases[b].weight /\ a > b
        Rank(a) == Cardinality({b \in 1 .. Len(cases) : Before(b, a)}) + 1
    IN  [k \in 1 .. Len(cases) |->
            LET a == CHOOSE x \in 1 .. Len(cases) : Rank(x) = k
            IN  [idx |-> a, weight |-> cases[a].weight]]

\* the (index, weight) pairs after the stable sort by weight: position k
\* holds the case with k-1 cases before it in (weight, index) order
SortedWeights(cases) ==
    LET Before(a, b) == \/ cases[a].weight < cases[b].weight
                        \/ cases[a].weight = cases[b].weight /\ a < b
        Rank(a) == Cardinality({b \in 1 .. Len(cases) : Before(b, a)}) + 1
    IN  [k \in 1 .. Len(cases) |->
            LET a == CHOOSE x \in 1 .. Len(cases) : Rank(x) = k
            IN  [idx |-> a, weight |-> cases[a].weight]]

RECURSIVE SumWeights(_, _)
SumWeights(weights, k) ==
    IF k = 0 THEN 0 ELSE weights[k].weight + SumWeights(weights, k - 1)

TotalWeights(cases) == SumWeights(SortedWeights(cases), Len(cases))

\* a walk that stops at the first case whose running sum exceeds `random`
SwitchPick_Strict(cases, random) ==
    LET weights == SortedWeights(cases)
        reached == {k \in 1 .. Len(weights) : SumWeights(weights, k) > random}
    IN  IF reached = {} THEN 0 ELSE weights[Min(reached)].idx

\* the walk over the sorted pairs: the first case whose running sum reaches
\* `random`; 0 when the walk ends without a case
SwitchPick(cases, random) ==
    LET weights == SortedWeights(cases)
        reached == {k \in 1 .. Len(weights) : SumWeights(weights, k) >= random}
    IN  IF reached = {} THEN 0 ELSE weights[Min(reached)].idx

-----------------------------------------------------------------------------
(* Trace files *)

TraceFileOf(a, c, w1, w2) ==
    LET sw == SwitchOp(<< SwitchCase(w1, << RangeOp(a, 8, a + 2) >>),
                          SwitchCase(w2, << RangeOp(a + 1, 16, a + 3) >>) >>)
        f  == << sw >>
        g  == << FunctionCallOp("f"), RangeOp(0, 8, 1) >>
        x  == << LoopOp(c, << FunctionCallOp("f") >>), RangeOp(0, 16, 4) >>
        y  == << RangeOp(a, 8, a + 3),
                 FunctionCallOp("f"),
                 LoopOp(c, << SwitchOp(<< SwitchCase(w2, << RangeOp(0, 8, 2) >>),
                                          SwitchCase(w1, << >>),
                                          SwitchCase(1, << FunctionCallOp("f") >>) >>)
                           >>),
                 FunctionCallOp("g") >>
    IN  [functions |-> [n \in {"f", "g"} |->
                           [block |-> IF n = "f" THEN f ELSE g]],
         traces    |-> << [name |-> "x", block |-> x],
                          [name |-> "y", block |-> y] >>]

TraceFiles ==
    {TraceFileOf(a, c, w1, w2) :
        a \in 0 .. MaxStart, c \in 0 .. MaxLoop,
        w1 \in 0 .. MaxWeight, w2 \in 0 .. MaxWeight}

-----------------------------------------------------------------------------
(* Spec: Simulation::simulate *)

Init ==
    /\ cfg \in Configs
    /\ pc = "start"
    /\ cache = NoCache
    /\ source = NoSource
    /\ parsed = "none"
    /\ file \in TraceFiles
    /\ run = 0
    /\ trace_idx = 0
    /\ queue = << >>
    /\ rng = 0
    /\ addresses = << >>
    /\ ip = 0
    /\ i = 0
    /\ hit = TRUE
    /\ hit_count = 0
    /\ miss_count = 0
    /\ results = << >>
    /\ lastResult = NoResult
    /\ lastAddress = 0
    /\ robin = NoRobin
    /\ output = << >>
    /\ input = << >>
    /\ lexed = NotLexed
    /\ wide = NoCache
    /\ nAccess = 0
    /\ recent = << >>
    /\ resetFrom = "none"
    /\ accLog = << >>
    /\ choices = << >>
    /\ log = << >>

\* Simulation::simulate(lru_cache, file_data) is called; the file has parsed
SimulateCall ==
    /\ pc = "idle"
    /\ run < MaxRuns
    /\ run' = run + 1
    /\ trace_idx' = 1
    /\ results' = << >>
    /\ pc' = "traces"
    /\ UNCHANGED << cfg, source, parsed, cache, file, queue, rng, addresses, ip, i, hit,
                    hit_count, miss_count, lastResult, lastAddress, robin, output, input, lexed, wide, nAccess, recent,
                    resetFrom, accLog, choices, log >>

\* the cache a trace starts on
CacheAtTraceStart_NoReset == cache

CacheAtTraceStart == LruCache_reset(cache)

\* the generator an expansion starts with
NewRng_Carried == rng

NewRng == seed_from_u64(0)

\* the map closure begins a trace: lru_cache.reset(), then trace.into_iter()
\* seeds its generator and its work stack
TraceStart ==
    /\ pc = "traces"
    /\ trace_idx <= Len(file.traces)
    /\ cache' = CacheAtTraceStart
    /\ resetFrom' = IF IsEmptyCache(cache) THEN "empty" ELSE "used"
    /\ nAccess' = 0
    /\ recent' = NoRecent(cache)
    /\ lastResult' = NoResult
    /\ lastAddress' = 0
    /\ robin' = NoRobin
    /\ UNCHANGED << output, input, lexed, wide >>
    /\ rng' = NewRng
    /\ addresses' = << >>
    /\ choices' = << >>
    /\ queue' = Reverse(file.traces[trace_idx].block)
    /\ pc' = "expand"
    /\ UNCHANGED << cfg, source, parsed, file, run, trace_idx, ip, i, hit, hit_count,
                    miss_count, results, accLog, log >>

Top == queue[Len(queue)]
Popped == SubSeq(queue, 1, Len(queue) - 1)

expandFrame == << cfg, source, parsed, cache, file, run, trace_idx, ip, i, hit, hit_count,
                  miss_count, results, lastResult, lastAddress, robin, output, input, lexed, wide, nAccess, recent,
                  resetFrom, accLog, log >>

\* Op::Range
ExpandRange ==
    /\ pc = "expand"
    /\ queue # << >>
    /\ Top.kind = "Range"
    /\ addresses' = addresses \o RangeInstrs(Top)
    /\ queue' = Popped
    /\ UNCHANGED << pc, rng, choices >>
    /\ UNCHANGED expandFrame

\* a call that pushes the body in writing order, so its last op runs first
CallPush_Forward(block) == block

\* queue.extend(function.block.ops.iter().rev())
CallPush(block) == Reverse(block)

\* Op::FunctionCall: functions.get(function_name).unwrap()
ExpandFunctionCall ==
    /\ pc = "expand"
    /\ queue # << >>
    /\ Top.kind = "FunctionCall"
    /\ IF Top.function_name \in DOMAIN file.functions
       THEN /\ queue' = Popped \o
                        CallPush(file.functions[Top.function_name].block)
            /\ pc' = "expand"
       ELSE /\ queue' = Popped
            /\ pc' = "panicked"
    /\ UNCHANGED << rng, addresses, choices >>
    /\ UNCHANGED expandFrame

\* Op::Loop
ExpandLoop ==
    /\ pc = "expand"
    /\ queue # << >>
    /\ Top.kind = "Loop"
    /\ queue' = Popped \o Repeat(Reverse(Top.block), Top.count)
    /\ UNCHANGED << pc, rng, addresses, choices >>
    /\ UNCHANGED expandFrame

\* Op::Switch
ExpandSwitch ==
    /\ pc = "expand"
    /\ queue # << >>
    /\ Top.kind = "Switch"
    /\ LET random == random_range(rng, TotalWeights(Top.cases))
           picked == SwitchPick(Top.cases, random)
       IN  /\ queue' = IF picked = 0
                       THEN Popped
                       ELSE Popped \o Reverse(Top.cases[picked].block)
           /\ choices' = Append(choices, picked)
    /\ rng' = rng_next(rng)
    /\ UNCHANGED << pc, addresses >>
    /\ UNCHANGED expandFrame

\* the work stack is empty: into_iter returns and the fold starts with
\* Simulation { name, hit_count: 0, miss_count: 0 }
IntoIterReturn ==
    /\ pc = "expand"
    /\ queue = << >>
    /\ ip' = 1
    /\ hit_count' = 0
    /\ miss_count' = 0
    /\ pc' = "fold"
    /\ UNCHANGED << cfg, source, parsed, cache, file, run, trace_idx, queue, rng, addresses,
                    i, hit, results, lastResult, lastAddress, robin, output, input, lexed, wide, nAccess, recent, resetFrom,
                    accLog, choices, log >>

\* the fold closure is entered with the next instruction: let mut hit = true
FoldInstruction ==
    /\ pc = "fold"
    /\ ip <= Len(addresses)
    /\ hit' = TRUE
    /\ i' = 0
    /\ accLog' = << >>
    /\ pc' = "bytes"
    /\ UNCHANGED << cfg, source, parsed, cache, file, run, trace_idx, queue, rng, addresses,
                    ip, hit_count, miss_count, results, lastResult, lastAddress, robin, output, input, lexed, wide, nAccess,
                    recent, resetFrom, choices, log >>

\* a loop that stops at the first byte that missed
ByteLoopRunning_ShortCircuit ==
    i < addresses[ip].length \div 8 /\ hit

\* for i in 0..(instruction.length / 8)
ByteLoopRunning == i < addresses[ip].length \div 8

\* hit &= lru_cache.get(instruction.address + i) == CacheHit::Hit
ByteAccess ==
    /\ pc = "bytes"
    /\ ByteLoopRunning
    /\ LET r == LruCache_get(cache, addresses[ip].address + i)
       IN  /\ cache' = r.cache
           /\ lastResult' = r.result
           /\ lastAddress' = addresses[ip].address + i
           /\ robin' = RobinAfter(robin, cache, addresses[ip].address + i)
           /\ UNCHANGED << output, input, lexed, wide >>
           /\ hit' = (hit /\ r.result = Hit)
           /\ accLog' = Append(accLog, [address |-> addresses[ip].address + i,
                                        result  |-> r.result])
           /\ recent' = RecentAfter(recent, cache, addresses[ip].address + i)
           /\ pc' = IF r.result = Panic THEN "panicked" ELSE "bytes"
    /\ nAccess' = nAccess + 1
    /\ i' = i + 1
    /\ UNCHANGED << cfg, source, parsed, file, run, trace_idx, queue, rng, addresses, ip,
                    hit_count, miss_count, results, resetFrom, choices, log >>

\* an `if hit` without its else branch
CountedMisses_Always(mc, h) == mc + 1

\* a hit branch that counts nothing
CountedHits_Never(hc, h) == hc

\* if hit { hit_count += 1 } else { miss_count += 1 }
CountedHits(hc, h) == IF h THEN hc + 1 ELSE hc
CountedMisses(mc, h) == IF h THEN mc ELSE mc + 1

\* the byte loop is over: the instruction is counted and the closure returns
FoldCount ==
    /\ pc = "bytes"
    /\ ~ByteLoopRunning
    /\ hit_count' = CountedHits(hit_count, hit)
    /\ miss_count' = CountedMisses(miss_count, hit)
    /\ ip' = ip + 1
    /\ pc' = "fold"
    /\ UNCHANGED << cfg, source, parsed, cache, file, run, trace_idx, queue, rng, addresses,
                    i, hit, results, lastResult, lastAddress, robin, output, input, lexed, wide, nAccess, recent, resetFrom,
                    accLog, choices, log >>

\* the fold is over: its Simulation value is collected
TraceDone ==
    /\ pc = "fold"
    /\ ip > Len(addresses)
    /\ results' = Append(results, [name       |-> file.traces[trace_idx].name,
                                   hit_count  |-> hit_count,
                                   miss_count |-> miss_count])
    /\ log' = Append(log, [run        |-> run,
                           trace      |-> trace_idx,
                           instrs     |-> addresses,
                           choices    |-> choices,
                           hit_count  |-> hit_count,
                           miss_count |-> miss_count])
    /\ trace_idx' = trace_idx + 1
    /\ pc' = "traces"
    /\ UNCHANGED << cfg, source, parsed, cache, file, run, queue, rng, addresses, ip, i, hit,
                    hit_count, miss_count, lastResult, lastAddress, robin, output, input, lexed, wide, nAccess, recent,
                    resetFrom, accLog, choices >>

\* every trace has been replayed: Ok(simulation_results)
SimulateReturn ==
    /\ pc = "traces"
    /\ trace_idx > Len(file.traces)
    /\ pc' = "idle"
    /\ UNCHANGED << cfg, source, parsed, cache, file, run, trace_idx, queue, rng, addresses,
                    ip, i, hit, hit_count, miss_count, results, lastResult, lastAddress, robin, output, input, lexed, wide,
                    nAccess, recent, resetFrom, accLog, choices, log >>

Next ==
    \/ New
    \/ SimulateCall
    \/ TraceStart
    \/ ExpandRange
    \/ ExpandFunctionCall
    \/ ExpandLoop
    \/ ExpandSwitch
    \/ IntoIterReturn
    \/ FoldInstruction
    \/ ByteAccess
    \/ FoldCount
    \/ TraceDone
    \/ SimulateReturn

Spec == Init /\ [][Next]_vars

-----------------------------------------------------------------------------
(* Properties of the cache *)

Occupied(set) == {w \in DOMAIN set.lines : set.lines[w].tag.some}
Resident(set) == {set.lines[w].tag.value : w \in Occupied(set)}
Range(s) == {s[k] : k \in 1 .. Len(s)}
Prefix(s, n) == SubSeq(s, 1, IF n < Len(s) THEN n ELSE Len(s))

\* C1: no two occupied lines of one set hold the same tag, in every state
\* reached by any sequence of get calls.
C1_DistinctTags ==
    \A s \in DOMAIN cache.sets :
        \A w1, w2 \in Occupied(cache.sets[s]) :
            w1 # w2 => cache.sets[s].lines[w1].tag # cache.sets[s].lines[w2].tag

\* a set with two occupied ways has just been hit
C1_Witness ==
    /\ lastResult = Hit
    /\ \E s \in DOMAIN cache.sets : Cardinality(Occupied(cache.sets[s])) >= 2

\* C2: the lru deque of every set has exactly WAYS entries and holds every
\* way index 0 .. WAYS-1 once, after construction, hits and misses.
C2_LruPermutation ==
    pc # "start" =>
        \A s \in DOMAIN cache.sets :
            /\ Len(cache.sets[s].lru) = cfg.WAYS
            /\ \A w \in 0 .. cfg.WAYS - 1 :
                   Cardinality({k \in 1 .. Len(cache.sets[s].lru) :
                                    cache.sets[s].lru[k] = w}) = 1

\* a hit on a way that was not at the back of the deque has reordered it
C2_Witness ==
    /\ lastResult = Hit
    /\ \E s \in DOMAIN cache.sets :
           /\ Len(cache.sets[s].lru) >= 2
           /\ cache.sets[s].lru # [k \in 1 .. cfg.WAYS |-> k - 1]

\* Per set, the resident tags are the latest WAYS distinct tags sent to the
\* set, and once WAYS tags were seen the front of the deque holds the oldest.
LruPerSet ==
    \A s \in DOMAIN cache.sets :
        /\ Resident(cache.sets[s]) = Range(Prefix(recent[s], cfg.WAYS))
        /\ Len(recent[s]) >= cfg.WAYS =>
               cache.sets[s].lines[Head(cache.sets[s].lru)].tag
                   = Some(recent[s][cfg.WAYS])

\* C3: a cache with SETS = 1 and LINE_SIZE = 1 exists once constructed, and
\* its resident tags are the last WAYS distinct tags accessed, the front of
\* the deque holding the oldest of them.
C3_SingleSetLru ==
    (cfg.SETS = 1 /\ cfg.LINE_SIZE = 1 /\ pc # "start") =>
        (pc = "idle" /\ LruPerSet)

\* C4: the first get after construction and after every reset returns
\* Miss { prev: None }, whatever the address.
C4_ColdStartMiss ==
    nAccess = 1 => lastResult = Miss(None)

\* the first get after a reset of a cache that held lines
C4_Witness ==
    /\ nAccess = 1
    /\ resetFrom = "used"
    /\ lastResult.kind = "Miss"

\* C9: right after reset, every line of every set is empty and every deque
\* is 0, 1, ..., WAYS-1: the state LruCache::new produces.
C9_ResetRestoresNew ==
    (resetFrom # "none" /\ nAccess = 0) =>
        /\ cache = LruCache_new(cfg)
        /\ \A s \in DOMAIN cache.sets :
               /\ \A w \in DOMAIN cache.sets[s].lines :
                      cache.sets[s].lines[w] = [address |-> None, tag |-> None]
               /\ cache.sets[s].lru = [k \in 1 .. cfg.WAYS |-> k - 1]

\* reset has just been called on a cache that held occupied lines, in a
\* configuration with more than one way
C9_Witness ==
    /\ resetFrom = "used"
    /\ nAccess = 0
    /\ cfg.WAYS >= 2

-----------------------------------------------------------------------------
(* Properties of the replay *)

RECURSIVE SumBytes(_, _)
SumBytes(instrs, k) ==
    IF k = 0 THEN 0 ELSE instrs[k].length \div 8 + SumBytes(instrs, k - 1)

\* C5 as stated: between two instructions of a replay, hit_count + miss_count
\* is the number of get calls issued since the reset that began the trace.
C5_CountersEqualByteAccesses ==
    pc = "fold" => hit_count + miss_count = nAccess

\* C5 amended: between two instructions, hit_count + miss_count is the number
\* of instructions replayed since the reset, the number of get calls is the
\* sum of their byte lengths, and the two are equal exactly when every
\* replayed instruction is one byte long.
C5_CountersEqualInstructions ==
    pc = "fold" =>
        /\ hit_count + miss_count = ip - 1
        /\ nAccess = SumBytes(addresses, ip - 1)
        /\ hit_count + miss_count <= nAccess
        /\ (hit_count + miss_count = nAccess) <=>
               (\A k \in 1 .. ip - 1 : addresses[k].length = 8)

\* a two-byte instruction has been replayed and counted
C5_Witness ==
    /\ pc = "fold"
    /\ ip > 1
    /\ hit_count + miss_count < nAccess
    /\ hit_count > 0
    /\ miss_count > 0

\* C6: counting an instruction raises exactly one of hit_count, miss_count
\* by one, the byte accesses raise neither, and a finished trace has
\* hit_count + miss_count equal to the number of instructions expanded.
C6_OneIncrementPerInstruction ==
    /\ [][(pc = "bytes" /\ pc' = "fold") =>
              \/ hit_count' = hit_count + 1 /\ miss_count' = miss_count
              \/ hit_count' = hit_count /\ miss_count' = miss_count + 1]_vars
    /\ [][(pc = "bytes" /\ pc' # "fold") =>
              hit_count' = hit_count /\ miss_count' = miss_count]_vars
    /\ [](\A k \in 1 .. Len(log) :
              log[k].hit_count + log[k].miss_count = Len(log[k].instrs))

\* a trace with one-byte and two-byte instructions has finished, with hits
\* and misses
C6_Witness ==
    \E k \in 1 .. Len(log) :
        /\ \E a, b \in 1 .. Len(log[k].instrs) :
               log[k].instrs[a].length = 8 /\ log[k].instrs[b].length = 16
        /\ log[k].hit_count > 0
        /\ log[k].miss_count > 0

\* C7: when an instruction is counted, get has been called exactly
\* length/8 times, on address, address+1, ... in this order, also after a
\* byte that missed, and the instruction counts as a hit iff every call
\* returned Hit.
C7_AllBytesAccessed ==
    [][(pc = "bytes" /\ pc' = "fold") =>
          LET instr == addresses[ip]
              n     == instr.length \div 8
          IN  /\ Len(accLog) = n
              /\ \A k \in 1 .. n : accLog[k].address = instr.address + k - 1
              /\ (hit_count' = hit_count + 1) <=>
                     (\A k \in 1 .. n : accLog[k].result = Hit)
              /\ (miss_count' = miss_count + 1) <=>
                     (\E k \in 1 .. n : accLog[k].result # Hit)]_vars

\* a two-byte instruction whose first byte missed and whose second byte was
\* still accessed, and hit, has been counted as a miss
C7_Witness ==
    /\ pc = "fold"
    /\ Len(accLog) = 2
    /\ accLog[1].result.kind = "Miss"
    /\ accLog[2].result = Hit
    /\ miss_count > 0

\* the replay of simulate on a given cache, as a function
RECURSIVE ReplayBytes(_, _, _, _)
ReplayBytes(ch, instr, k, h) ==
    IF k >= instr.length \div 8
    THEN [cache |-> ch, hit |-> h]
    ELSE LET r == LruCache_get(ch, instr.address + k)
         IN  ReplayBytes(r.cache, instr, k + 1, h /\ r.result = Hit)

RECURSIVE Replay(_, _, _, _)
Replay(ch, instrs, k, sim) ==
    IF k > Len(instrs)
    THEN sim
    ELSE LET b == ReplayBytes(ch, instrs[k], 0, TRUE)
         IN  Replay(b.cache, instrs, k + 1,
                    [hit_count  |-> CountedHits(sim.hit_count, b.hit),
                     miss_count |-> CountedMisses(sim.miss_count, b.hit)])

\* the counts of a trace replayed alone on a newly constructed cache
FreshCounts(instrs) ==
    Replay(LruCache_new(cfg), instrs, 1, [hit_count |-> 0, miss_count |-> 0])

\* C8: the counts of every finished trace, and the counts collected in
\* results, are those of the trace replayed alone on a new cache, whatever
\* was replayed before on the shared cache.
C8_NoLeakBetweenTraces ==
    /\ \A k \in 1 .. Len(log) :
           [hit_count  |-> log[k].hit_count,
            miss_count |-> log[k].miss_count] = FreshCounts(log[k].instrs)
    /\ \A k \in 1 .. Len(results) :
           \A e \in 1 .. Len(log) :
               (log[e].run = run /\ log[e].trace = k) =>
                   [hit_count  |-> results[k].hit_count,
                    miss_count |-> results[k].miss_count]
                       = FreshCounts(log[e].instrs)

\* a trace has finished that began on a used cache and accessed an address
\* the trace before it had accessed
C8_Witness ==
    \E e \in 2 .. Len(log) :
        /\ resetFrom = "used"
        /\ pc = "traces"
        /\ \E a \in 1 .. Len(log[e].instrs), b \in 1 .. Len(log[e - 1].instrs) :
               log[e].instrs[a].address = log[e - 1].instrs[b].address
        /\ log[e].miss_count > 0
        /\ log[e].hit_count > 0

\* C10: any two expansions of the same trace give the same instruction
\* sequence and make the same switch choices.
C10_ExpansionDeterministic ==
    \A e1, e2 \in 1 .. Len(log) :
        log[e1].trace = log[e2].trace =>
            /\ log[e1].instrs = log[e2].instrs
            /\ log[e1].choices = log[e2].choices

\* a trace whose expansion drew several times, with different outcomes, has
\* been expanded twice
C10_Witness ==
    \E e1, e2 \in 1 .. Len(log) :
        /\ e1 # e2
        /\ log[e1].trace = log[e2].trace
        /\ \E a, b \in 1 .. Len(log[e1].choices) :
               log[e1].choices[a] # log[e1].choices[b]
        /\ Len(log[e1].instrs) > 0

-----------------------------------------------------------------------------
(* Properties of the expansion of single operations *)

\* the instruction count and the addresses a range stands for, by the
\* arithmetic of its definition: (e - s) * 8 / L instructions of L bits at
\* s, s + L/8, ..., e - L/8
RangeByDefinition(op) ==
    LET n == ((op.addr_end - op.addr_start) * 8) \div op.addr_size
    IN  [k \in 1 .. n |->
            [address |-> op.addr_start + (k - 1) * (op.addr_size \div 8),
             length  |-> op.addr_size]]

\* the invariants of a Range
RangeInvariants(op) ==
    /\ op.addr_start < op.addr_end
    /\ op.addr_size > 0
    /\ op.addr_size % 8 = 0
    /\ (op.addr_end - op.addr_start) % (op.addr_size \div 8) = 0

\* C11: expanding a Range {s, L, e} that satisfies the invariants appends
\* exactly (e - s) * 8 / L instructions, at s, s + L/8, ..., e - L/8, each of
\* length L, to the output and nothing else
C11_RangeExpansion ==
    [][(pc = "expand" /\ queue # << >> /\ Top.kind = "Range"
            /\ RangeInvariants(Top))
        => /\ addresses' = addresses \o RangeByDefinition(Top)
           /\ Len(addresses') = Len(addresses) +
                  ((Top.addr_end - Top.addr_start) * 8) \div Top.addr_size
           /\ addresses'[Len(addresses')].address =
                  Top.addr_end - Top.addr_size \div 8]_vars

\* a range of two 16-bit instructions has been expanded behind other output
C11_Witness ==
    /\ pc = "expand"
    /\ Len(addresses) >= 3
    /\ addresses[Len(addresses)].length = 16
    /\ addresses[Len(addresses) - 1].length = 16
    /\ addresses[Len(addresses)].address = addresses[Len(addresses) - 1].address + 2

-----------------------------------------------------------------------------
(* Inlining of block calls *)

\* Trace::into_iter run to its end on a work stack, as one function: the
\* instructions it yields and the switch cases it picks
RECURSIVE ExpandOps(_, _, _, _, _)
ExpandOps(functions, stack, generator, out, picks) ==
    IF stack = << >>
    THEN [instrs |-> out, choices |-> picks]
    ELSE LET top  == stack[Len(stack)]
             rest == SubSeq(stack, 1, Len(stack) - 1)
         IN  CASE top.kind = "Range" ->
                    ExpandOps(functions, rest, generator,
                              out \o RangeInstrs(top), picks)
               [] top.kind = "FunctionCall" ->
                    IF top.function_name \in DOMAIN functions
                    THEN ExpandOps(functions,
                                   rest \o CallPush(functions[top.function_name].block),
                                   generator, out, picks)
                    ELSE [instrs |-> out, choices |-> picks]
               [] top.kind = "Loop" ->
                    ExpandOps(functions,
                              rest \o Repeat(Reverse(top.block), top.count),
                              generator, out, picks)
               [] top.kind = "Switch" ->
                    LET random == random_range(generator, TotalWeights(top.cases))
                        picked == SwitchPick(top.cases, random)
                    IN  ExpandOps(functions,
                                  IF picked = 0
                                  THEN rest
                                  ELSE rest \o Reverse(top.cases[picked].block),
                                  rng_next(generator), out, Append(picks, picked))

\* the expansion of a block from a fresh generator
ExpandBlock(functions, block) ==
    ExpandOps(functions, Reverse(block), seed_from_u64(0), << >>, << >>)

\* a block with its calls replaced by the ops of the called blocks, down to
\* `depth` levels of calls; calls inside loop and switch bodies included
RECURSIVE InlineBlock(_, _, _)
InlineBlock(functions, block, depth) ==
    IF block = << >>
    THEN << >>
    ELSE LET op   == Head(block)
             rest == InlineBlock(functions, Tail(block), depth)
         IN  CASE op.kind = "Range" -> << op >> \o rest
               [] op.kind = "FunctionCall" ->
                    IF depth = 0
                    THEN << op >> \o rest
                    ELSE InlineBlock(functions,
                                     functions[op.function_name].block,
                                     depth - 1) \o rest
               [] op.kind = "Loop" ->
                    << LoopOp(op.count, InlineBlock(functions, op.block, depth)) >>
                        \o rest
               [] op.kind = "Switch" ->
                    << SwitchOp([k \in 1 .. Len(op.cases) |->
                           SwitchCase(op.cases[k].weight,
                                      InlineBlock(functions, op.cases[k].block,
                                                  depth))]) >> \o rest

\* the calls left in a block, at any nesting
RECURSIVE CallsIn(_)
CallsIn(block) ==
    IF block = << >>
    THEN {}
    ELSE LET op == Head(block)
         IN  CallsIn(Tail(block)) \cup
             CASE op.kind = "Range" -> {}
               [] op.kind = "FunctionCall" -> {op.function_name}
               [] op.kind = "Loop" -> CallsIn(op.block)
               [] op.kind = "Switch" ->
                    UNION {CallsIn(op.cases[k].block) : k \in 1 .. Len(op.cases)}

\* the deepest chain of calls in the files of the model: trace -> g -> f
MaxCallDepth == 2

\* C12: a trace block and the same block with its calls replaced by the
\* called blocks' ops (one level of calls, or all of them) expand to the
\* same instructions with the same switch choices
C12_InliningEquivalence ==
    (pc = "traces" /\ log # << >>) =>
        LET e     == log[Len(log)]
            block == file.traces[e.trace].block
        IN  \A depth \in 1 .. MaxCallDepth :
                LET inlined == ExpandBlock(file.functions,
                                   InlineBlock(file.functions, block, depth))
                IN  /\ inlined.instrs = e.instrs
                    /\ inlined.choices = e.choices

\* a trace with a call that reaches another call has been expanded, its
\* full inlining has no call left, and the expansion picked switch cases
C12_Witness ==
    /\ pc = "traces"
    /\ log # << >>
    /\ LET e     == log[Len(log)]
           block == file.traces[e.trace].block
       IN  /\ "g" \in CallsIn(block)
           /\ CallsIn(InlineBlock(file.functions, block, 1)) # {}
           /\ CallsIn(InlineBlock(file.functions, block, MaxCallDepth)) = {}
           /\ Len(e.choices) >= 2
           /\ Len(e.instrs) >= 3

-----------------------------------------------------------------------------
(* SpecFile: Simulation::simulate on the text of a trace file *)

\* the largest end address written in a range of the model's files
MaxEnd == 4

\* the instruction sizes written in the ranges of the model's files
RangeSizes == {0, 4, 8, 12, 16, 24}

\* fn range: what the parser does with the text `start..size..end`
range(op) ==
    IF op.addr_start >= op.addr_end
    THEN "Backtrack"
    ELSE IF op.addr_size \div 8 = 0
    THEN "Panic"
    ELSE IF (op.addr_end - op.addr_start) % (op.addr_size \div 8) # 0
    THEN "Backtrack"
    ELSE "Ok"

\* the ranges written in a block, in reading order
RECURSIVE RangesIn(_)
RECURSIVE RangesInCases(_)
RangesIn(block) ==
    IF block = << >>
    THEN << >>
    ELSE LET op == Head(block)
         IN  (CASE op.kind = "Range" -> << op >>
                [] op.kind = "FunctionCall" -> << >>
                [] op.kind = "Loop" -> RangesIn(op.block)
                [] op.kind = "Switch" -> RangesInCases(op.cases))
             \o RangesIn(Tail(block))
RangesInCases(cases) ==
    IF cases = << >>
    THEN << >>
    ELSE RangesIn(Head(cases).block) \o RangesInCases(Tail(cases))

RECURSIVE RangesInBlocks(_)
RangesInBlocks(named) ==
    IF named = << >>
    THEN << >>
    ELSE RangesIn(Head(named).block) \o RangesInBlocks(Tail(named))

\* (repeat(0.., function), repeat(1.., trace_block)).parse(input): the
\* parsers read the text front to back and stop at the first range that
\* fails; at least one trace block is required
ParseOutcome(src) ==
    LET ranges == RangesInBlocks(src.function_list \o src.trace_blocks)
        failed == {k \in 1 .. Len(ranges) : range(ranges[k]) # "Ok"}
    IN  IF failed # {}
        THEN IF range(ranges[Min(failed)]) = "Panic" THEN "Panic"
                                                    ELSE "ParseError"
        ELSE IF src.trace_blocks = << >> THEN "ParseError" ELSE "Ok"

Names(named) == {named[k].name : k \in 1 .. Len(named)}

\* the loop that fills the HashMap: a name already in the map is an error
DuplicateFunction(function_list) ==
    \E j, k \in 1 .. Len(function_list) :
        j < k /\ function_list[j].name = function_list[k].name

\* the work list of the unknown-function check: the ops of the trace
\* blocks, and of the loop and switch bodies inside them
UnknownCalls(src) ==
    UNION {CallsIn(src.trace_blocks[k].block) : k \in 1 .. Len(src.trace_blocks)}
        \ Names(src.function_list)

\* Ok(Self { traces }): every trace holds a clone of the function map
BuildFile(src) ==
    [functions |-> [n \in Names(src.function_list) |->
                       [block |-> (CHOOSE fn \in Range(src.function_list) :
                                       fn.name = n).block]],
     traces    |-> src.trace_blocks]

\* TraceFile::try_from
TryFrom(src) ==
    IF ParseOutcome(src) # "Ok"
    THEN [kind |-> ParseOutcome(src), file |-> EmptyFile]
    ELSE IF DuplicateFunction(src.function_list)
    THEN [kind |-> "SyntaxError", file |-> EmptyFile]
    ELSE IF UnknownCalls(src) # {}
    THEN [kind |-> "SyntaxError", file |-> EmptyFile]
    ELSE [kind |-> "Ok", file |-> BuildFile(src)]

\* the ranges a text can hold
RawRanges ==
    {RangeOp(s, L, e) : s \in 0 .. MaxStart, L \in RangeSizes, e \in 0 .. MaxEnd}

\* names a call can use: three functions and a name no text defines
CallNames == {"f", "g", "h", "u"}

\* an op written at the top of a block, in a loop body or in a switch case
Nested(pos, op) ==
    CASE pos = "top"    -> op
      [] pos = "loop"   -> LoopOp(1, << op >>)
      [] pos = "switch" -> SwitchOp(<< SwitchCase(1, << op >>) >>)

\* the text (g calling h and h calling g is the recursion of the model; a
\* function calling itself is the same loop with a period of one step)
\*   fn f() { r }   fn n2() { c1() }   fn h() { c3() }
\*   'a' { <c2() at pos>  loop(MaxLoop) { switch { 1: f()  1: 0..16..2 } } }
\*   't2' { 1..8..3 }
SourceOf(r, n2, c1, c3, c2, pos, t2) ==
    [function_list |->
        << [name |-> "f", block |-> << r >>],
           [name |-> n2,  block |-> << FunctionCallOp(c1) >>],
           [name |-> "h", block |-> << FunctionCallOp(c3) >>] >>,
     trace_blocks |->
        << [name |-> "a",
            block |-> << Nested(pos, FunctionCallOp(c2)),
                         LoopOp(MaxLoop,
                            << SwitchOp(<< SwitchCase(1, << FunctionCallOp("f") >>),
                                           SwitchCase(1, << RangeOp(0, 16, 2) >>) >>)
                            >>) >>],
           [name |-> t2, block |-> << RangeOp(1, 8, 3) >>] >>]

\* the text  't' { r }
SourceOfRange(r) ==
    [function_list |-> << >>,
     trace_blocks  |-> << [name |-> "t", block |-> << r >>] >>]

\* the text  fn f() { 0..8..2 }  with no trace block
SourceNoTrace ==
    [function_list |-> << [name |-> "f", block |-> << RangeOp(0, 8, 2) >>] >>,
     trace_blocks  |-> << >>]

\* the text  'a' { }  'b' { 0..8..2 }
SourceEmptyTrace ==
    [function_list |-> << >>,
     trace_blocks  |-> << [name |-> "a", block |-> << >>],
                          [name |-> "b", block |-> << RangeOp(0, 8, 2) >>] >>]

SourceFiles ==
    {SourceOfRange(r) : r \in RawRanges}
    \cup {SourceOf(r, "g", "f", "f", "f", "loop", "b") :
            r \in {x \in RawRanges : x.addr_start = 0}}
    \cup {SourceOf(RangeOp(0, 8, 2), "g", c1, c3, c2, pos, "b") :
            c1 \in CallNames \ {"g"}, c3 \in {"f", "g"},
            c2 \in CallNames, pos \in {"top", "loop", "switch"}}
    \cup {SourceOf(RangeOp(0, 8, 2), n2, "f", "f", c2, "top", t2) :
            n2 \in {"f", "g"}, c2 \in {"f", "g"}, t2 \in {"a", "b"}}
    \cup {SourceNoTrace, SourceEmptyTrace}

InitFile ==
    /\ cfg \in Configs
    /\ pc = "start"
    /\ cache = NoCache
    /\ source \in SourceFiles
    /\ parsed = "none"
    /\ file = EmptyFile
    /\ run = 0
    /\ trace_idx = 0
    /\ queue = << >>
    /\ rng = 0
    /\ addresses = << >>
    /\ ip = 0
    /\ i = 0
    /\ hit = TRUE
    /\ hit_count = 0
    /\ miss_count = 0
    /\ results = << >>
    /\ lastResult = NoResult
    /\ lastAddress = 0
    /\ robin = NoRobin
    /\ output = << >>
    /\ input = << >>
    /\ lexed = NotLexed
    /\ wide = NoCache
    /\ nAccess = 0
    /\ recent = << >>
    /\ resetFrom = "none"
    /\ accLog = << >>
    /\ choices = << >>
    /\ log = << >>

\* the two entry points: fn main of the cache binary and run_simulation
EntryPoints == {"main", "run_simulation"}

\* cycle counts a Params value can hold
CycleChoices == {0, 1, 10}
ParamsChoices == [cycles_hit : CycleChoices, cycles_miss : CycleChoices]

\* lru_cache.format_info(): the text about the cache configuration
format_info == [part |-> "configuration"]

\* the text of an error: format!("failed to parse access trace file: {e}")
ErrorText(kind) == [part |-> "error", kind |-> kind]

\* the modelled time of a Simulation, in cycles: every time of a report is
\* this number times the one cycle time 1 / CLOCK_SPEED_MHZ
TimeOf(sim, config) ==
    sim.hit_count * config.cycles_hit + sim.miss_count * config.cycles_miss

\* (time - baseline) / baseline * 100.0 in f64: a division by 0.0 gives NaN
\* for 0.0 / 0.0 and infinity for a positive numerator
RelativeTime(time, baseline) ==
    IF baseline # 0
    THEN [kind |-> "number", num |-> (time - baseline) * 100, den |-> baseline]
    ELSE IF time = baseline
    THEN [kind |-> "NaN", num |-> 0, den |-> 0]
    ELSE [kind |-> "inf", num |-> 0, den |-> 0]

\* results.sort_by(|(_, a), (_, b)| a.partial_cmp(b).unwrap()): a stable
\* sort by time; position k holds the index of the k-th result
SortedByTime(simulation_results, config) ==
    LET n == Len(simulation_results)
        T(a) == TimeOf(simulation_results[a], config)
        Before(a, b) == T(a) < T(b) \/ (T(a) = T(b) /\ a < b)
        Rank(a) == Cardinality({b \in 1 .. n : Before(b, a)}) + 1
    IN  [k \in 1 .. n |-> CHOOSE a \in 1 .. n : Rank(a) = k]

\* sim.format_summary(&config)
format_summary(sim, config) ==
    [part |-> "summary", name |-> sim.name, hit_count |-> sim.hit_count,
     miss_count |-> sim.miss_count, time |-> TimeOf(sim, config)]

\* Simulation::compare: the summary and the relative time of every result,
\* in the sorted order, the first time being the baseline
compare(simulation_results, config) ==
    LET order    == SortedByTime(simulation_results, config)
        baseline == TimeOf(simulation_results[order[1]], config)
    IN  [k \in 1 .. 2 * Len(order) |->
            LET sim == simulation_results[order[(k + 1) \div 2]]
            IN  IF k % 2 = 1
                THEN format_summary(sim, config)
                ELSE [part  |-> "relative",
                      value |-> RelativeTime(TimeOf(sim, config), baseline)]]

\* what the entry point has put out when try_from has returned: main has
\* printed format_info before the call and prints the error after it;
\* run_simulation holds format_info in a vector and returns the error alone
OutputAfterParse(entry, kind) ==
    CASE kind = "Ok"    -> << format_info >>
      [] kind = "Panic" -> IF entry = "main" THEN << format_info >> ELSE << >>
      [] OTHER          -> IF entry = "main"
                           THEN << format_info, ErrorText(kind) >>
                           ELSE << ErrorText(kind) >>

\* the entry point calls Simulation::simulate(lru_cache, file_data):
\* match TraceFile::try_from(file_data) { Ok(..) => .., Err(e) => return Err }
SimulateParse(entry) ==
    /\ pc = "idle"
    /\ run < MaxRuns
    /\ run' = run + 1
    /\ results' = << >>
    /\ LET r == TryFrom(source)
       IN  /\ parsed' = r.kind
           /\ file' = r.file
           /\ output' = OutputAfterParse(entry, r.kind)
           /\ trace_idx' = IF r.kind = "Ok" THEN 1 ELSE 0
           /\ pc' = CASE r.kind = "Ok"    -> "traces"
                      [] r.kind = "Panic" -> "panicked"
                      [] OTHER            -> "idle"
    /\ UNCHANGED << cfg, source, cache, queue, rng, addresses, ip, i, hit,
                    hit_count, miss_count, lastResult, lastAddress, robin, input, lexed, wide,
                    nAccess, recent, resetFrom, accLog, choices, log >>

\* every trace has been replayed: Ok(simulation_results), and the entry
\* point puts out Simulation::compare(&simulation_results, config)
SimulateReport(config) ==
    /\ pc = "traces"
    /\ trace_idx > Len(file.traces)
    /\ output' = output \o compare(results, config)
    /\ pc' = "idle"
    /\ UNCHANGED << cfg, source, parsed, cache, file, run, trace_idx, queue, rng,
                    addresses, ip, i, hit, hit_count, miss_count, results,
                    lastResult, lastAddress, robin, input, lexed, wide, nAccess, recent,
                    resetFrom, accLog, choices, log >>

NextFile ==
    \/ New
    \/ \E entry \in EntryPoints : SimulateParse(entry)
    \/ \E config \in ParamsChoices : SimulateReport(config)
    \/ TraceStart
    \/ ExpandRange
    \/ ExpandFunctionCall
    \/ ExpandLoop
    \/ ExpandSwitch
    \/ IntoIterReturn
    \/ FoldInstruction
    \/ ByteAccess
    \/ FoldCount
    \/ TraceDone

\* the program is one thread that runs until it returns or panics: a step
\* that can be taken is taken
SpecFile == InitFile /\ [][NextFile]_vars /\ WF_vars(NextFile)

-----------------------------------------------------------------------------
(* Properties of validation *)

\* C13: the expansion of every file that passed validation terminates: an
\* expansion that has started comes to an end
C13_ExpansionTerminates ==
    (pc = "expand" /\ parsed = "Ok") ~> (pc # "expand")

\* every block of a text: function bodies and trace blocks
AllBlocks(src) == src.function_list \o src.trace_blocks

\* the names called anywhere in a text, function bodies included
AllCalls(src) ==
    UNION {CallsIn(AllBlocks(src)[k].block) : k \in 1 .. Len(AllBlocks(src))}

\* C14: a text with a call to an undefined block, wherever the call is
\* written, is rejected by validation, and an expansion never looks up a
\* block that is missing
C14_UndefinedCallsRejected ==
    /\ parsed = "Ok" => AllCalls(source) \subseteq Names(source.function_list)
    /\ ~(pc = "panicked" /\ parsed = "Ok" /\ queue # << >>)

\* two blocks of a list carry the same name
DuplicateName(named) ==
    \E j, k \in 1 .. Len(named) : j < k /\ named[j].name = named[k].name

\* C15: a text that defines the same block name twice, among the functions
\* or among the quoted trace blocks, is rejected by validation
C15_DuplicateNamesRejected ==
    parsed = "Ok" => /\ ~DuplicateName(source.function_list)
                     /\ ~DuplicateName(source.trace_blocks)

\* C16: a text with a range that violates start < end, len > 0, len
\* divisible by 8 or (end - start) divisible by len / 8 is rejected with an
\* error value: it is neither accepted nor does reading it crash
C16_RangeValidation ==
    LET ranges == RangesInBlocks(AllBlocks(source))
    IN  (parsed # "none" /\ \E k \in 1 .. Len(ranges) : ~RangeInvariants(ranges[k]))
            => parsed = "ParseError"

-----------------------------------------------------------------------------
(* SpecConfig: the cache built with any geometry *)

\* set counts, way counts and line sizes a build can name
GeometryChoices == {2, 3}

AnyConfigs ==
    [SETS : GeometryChoices, WAYS : GeometryChoices, LINE_SIZE : GeometryChoices]

InitConfig ==
    /\ cfg \in AnyConfigs
    /\ pc = "start"
    /\ cache = NoCache
    /\ source = NoSource
    /\ parsed = "none"
    /\ file = EmptyFile
    /\ run = 0
    /\ trace_idx = 0
    /\ queue = << >>
    /\ rng = 0
    /\ addresses = << >>
    /\ ip = 0
    /\ i = 0
    /\ hit = TRUE
    /\ hit_count = 0
    /\ miss_count = 0
    /\ results = << >>
    /\ lastResult = NoResult
    /\ lastAddress = 0
    /\ robin = NoRobin
    /\ output = << >>
    /\ input = << >>
    /\ lexed = NotLexed
    /\ wide = NoCache
    /\ nAccess = 0
    /\ recent = << >>
    /\ resetFrom = "none"
    /\ accLog = << >>
    /\ choices = << >>
    /\ log = << >>

SpecConfig == InitConfig /\ [][NextCache]_vars

-----------------------------------------------------------------------------
(* Properties of the geometry *)

\* C17: a cache with SETS = 1 or LINE_SIZE = 1 can be constructed, with zero
\* set-index bits or zero offset bits
C17_DegenerateGeometryConstructs ==
    (pc # "start" /\ (cfg.SETS = 1 \/ cfg.LINE_SIZE = 1)) =>
        /\ pc # "panicked"
        /\ DOMAIN cache.sets = 0 .. cfg.SETS - 1
        /\ cfg.SETS = 1 => cache.set_index_width = 0
        /\ cfg.LINE_SIZE = 1 => cache.offset_width = 0

IsPowerOfTwo(n) == \E k \in 0 .. n : 2 ^ k = n

\* C18: construction rejects every geometry whose SETS, WAYS or LINE_SIZE is
\* not a power of two: no such cache is ever built or accessed
C18_GeometryRejected ==
    (pc # "start" /\ ~(/\ IsPowerOfTwo(cfg.SETS)
                       /\ IsPowerOfTwo(cfg.WAYS)
                       /\ IsPowerOfTwo(cfg.LINE_SIZE))) =>
        /\ cache = NoCache
        /\ nAccess = 0

\* the lines the bytes of an instruction lie in
LinesOf(instruction) ==
    {(instruction.address + b) \div cfg.LINE_SIZE :
        b \in 0 .. (instruction.length \div 8) - 1}

\* C19: in a cache of a single line (SETS = 1, WAYS = 1), an instruction
\* whose bytes lie in two lines is counted as a miss on every replay
C19_StraddlingAlwaysMiss ==
    (pc # "start" /\ cfg.SETS = 1 /\ cfg.WAYS = 1) =>
        /\ pc # "panicked"
        /\ (pc = "bytes" /\ ~ByteLoopRunning
                /\ Cardinality(LinesOf(addresses[ip])) > 1) => ~hit

\* C20: from a reset on, while no set has been sent more than WAYS distinct
\* tags, a get is a Miss exactly when it is the first access to its line
\* since the reset, that Miss carries no previous address, and every later
\* access to the line is a Hit
C20_OnlyCompulsoryMisses ==
    [][(nAccess' = nAccess + 1 /\ pc' # "panicked"
            /\ \A s \in DOMAIN recent' : Len(recent'[s]) <= cfg.WAYS)
        => LET s == set_index_of(cache, lastAddress')
               t == tag_of(cache, lastAddress')
           IN  /\ t \notin Range(recent[s]) => lastResult' = Miss(None)
               /\ t \in Range(recent[s]) => lastResult' = Hit]_vars

\* a set holds WAYS = 2 lines filled one after the other, and the line
\* filled first has been accessed again
C20_Witness ==
    /\ pc = "idle"
    /\ cfg.WAYS = 2
    /\ nAccess = 3
    /\ lastResult = Hit
    /\ \A s \in DOMAIN recent : Len(recent[s]) <= cfg.WAYS
    /\ Len(recent[set_index_of(cache, lastAddress)]) = 2

-----------------------------------------------------------------------------
(* Properties of single accesses *)

\* the gets since the reset go round k > WAYS tags of one set (while the
\* first round lasts, k is not yet known and every tag is new)
InConflictRound(rb) ==
    /\ rb.ok
    /\ rb.order # << >>
    /\ rb.pos > 0 => Len(rb.order) > cfg.WAYS

\* C21: from a reset on, while the gets go round k > WAYS distinct tags of
\* one set, every get is a Miss, and every Miss after the first WAYS of
\* them reports a previous address
C21_ConflictEviction ==
    [][(nAccess' = nAccess + 1 /\ pc' # "panicked" /\ InConflictRound(robin'))
        => /\ lastResult'.kind = "Miss"
           /\ nAccess' > cfg.WAYS => lastResult'.prev.some]_vars

\* three tags of one set have been accessed in turn in a 2-way cache and
\* the first has been accessed again
C21_Witness ==
    /\ pc = "idle"
    /\ cfg.WAYS = 2
    /\ robin.ok
    /\ Len(robin.order) = 3
    /\ robin.pos = 2
    /\ nAccess = 4
    /\ lastResult.kind = "Miss"
    /\ lastResult.prev.some

-----------------------------------------------------------------------------
(* Properties of switch and loop *)

AllWeightsZero(cases) == \A k \in 1 .. Len(cases) : cases[k].weight = 0

\* C22: a switch whose cases all have weight zero selects its first case in
\* source order, at every invocation: the body pushed is the body of case 1
C22_ZeroWeightsFirstCase ==
    [][(pc = "expand" /\ queue # << >> /\ Top.kind = "Switch"
            /\ AllWeightsZero(Top.cases))
        => /\ choices' = Append(choices, 1)
           /\ queue' = Popped \o Reverse(Top.cases[1].block)]_vars

\* the switch of f, two cases of weight zero, has been invoked twice in one
\* expansion, with different states of the generator
C22_Witness ==
    /\ pc = "expand"
    /\ trace_idx = 1
    /\ AllWeightsZero(file.functions["f"].block[1].cases)
    /\ Len(file.functions["f"].block[1].cases) = 2
    /\ Len(choices) = 2
    /\ addresses # << >>

-----------------------------------------------------------------------------
(* Properties of the report *)

Summaries == SelectSeq(output, LAMBDA x : x.part = "summary")
Relatives == SelectSeq(output, LAMBDA x : x.part = "relative")

\* C23: the summaries of a report are in non-decreasing order of modelled
\* time, the first is the baseline, every relative value is
\* (time - baseline) / baseline, the baseline's own relative value is 0 and
\* no relative value is negative
C23_CompareRanking ==
    Summaries # << >> =>
        /\ \A j, k \in 1 .. Len(Summaries) :
               j < k => Summaries[j].time <= Summaries[k].time
        /\ Len(Relatives) = Len(Summaries)
        /\ \A k \in 1 .. Len(Relatives) :
               /\ Relatives[k].value.kind # "number" =>
                      Summaries[1].time = 0
               /\ Relatives[k].value.kind = "number" =>
                      /\ Relatives[k].value.den = Summaries[1].time
                      /\ Relatives[k].value.num =
                             (Summaries[k].time - Summaries[1].time) * 100
                      /\ Relatives[k].value.num >= 0
        /\ Relatives[1].value.kind = "number"
        /\ Relatives[1].value.num = 0

\* C24: the output of a run that failed is the error text alone: no part of
\* the report stands before (or after) an error
C24_NoPartialOutput ==
    \A k \in 1 .. Len(output) :
        output[k].part = "error" => Len(output) = 1

-----------------------------------------------------------------------------
(* SpecLexer: the integer parsers on a piece of text *)

\* texts are sequences of characters, at most MaxLiteralLen long
MaxLiteralLen == 4

Chars == {"0", "1", "8", "a", "F", "x", "b", "o"}

\* the character sets of the take_while calls
BinDigits == {"0", "1"}
OctDigits == {"0", "1", "2", "3", "4", "5", "6", "7"}
DecDigits == OctDigits \cup {"8", "9"}
HexDigits == DecDigits \cup {"a", "b", "c", "d", "e", "f"}
                       \cup {"A", "B", "C", "D", "E", "F"}

\* char::to_digit
to_digit(c) ==
    CASE c = "0" -> 0 [] c = "1" -> 1 [] c = "2" -> 2 [] c = "3" -> 3
      [] c = "4" -> 4 [] c = "5" -> 5 [] c = "6" -> 6 [] c = "7" -> 7
      [] c = "8" -> 8 [] c = "9" -> 9
      [] c \in {"a", "A"} -> 10 [] c \in {"b", "B"} -> 11
      [] c \in {"c", "C"} -> 12 [] c \in {"d", "D"} -> 13
      [] c \in {"e", "E"} -> 14 [] c \in {"f", "F"} -> 15

\* results of a parser: ModalResult<usize> and the text left
Ok(value, rest) == [kind |-> "Ok", value |-> value, rest |-> rest]
Backtrack == [kind |-> "Backtrack", value |-> 0, rest |-> << >>]
Cut == [kind |-> "Cut", value |-> 0, rest |-> << >>]

\* a cut_err that lets the error backtrack
cut_err_Off(r) == r

\* cut_err(parser): a backtracking error becomes a hard one
cut_err(r) == IF r.kind = "Backtrack" THEN Cut ELSE r

\* usize::from_str_radix(s, radix) on digits of the radix
RECURSIVE from_str_radix(_, _)
from_str_radix(s, radix) ==
    IF s = << >>
    THEN 0
    ELSE from_str_radix(SubSeq(s, 1, Len(s) - 1), radix) * radix
             + to_digit(s[Len(s)])

\* take_while(1.., set): the longest prefix of characters of the set, an
\* error when it is empty
take_while(text, set) ==
    LET stops == {k \in 1 .. Len(text) : text[k] \notin set}
        n     == IF stops = {} THEN Len(text) ELSE Min(stops) - 1
    IN  IF n = 0
        THEN [kind |-> "Backtrack", taken |-> << >>, rest |-> text]
        ELSE [kind |-> "Ok", taken |-> SubSeq(text, 1, n),
              rest |-> SubSeq(text, n + 1, Len(text))]

\* take_while(1.., set).try_map(|s| usize::from_str_radix(s, radix))
Digits(text, set, radix) ==
    LET t == take_while(text, set)
    IN  IF t.kind = "Ok" THEN Ok(from_str_radix(t.taken, radix), t.rest)
                         ELSE Backtrack

StartsWith(text, prefix) ==
    Len(text) >= Len(prefix) /\ SubSeq(text, 1, Len(prefix)) = prefix

\* preceded(prefix, cut_err(take_while(1.., set)).try_map(..))
Prefixed(text, prefix, set, radix) ==
    IF StartsWith(text, prefix)
    THEN cut_err(Digits(SubSeq(text, Len(prefix) + 1, Len(text)), set, radix))
    ELSE Backtrack

\* fn integer: alt over the three prefixed forms and the decimal form; alt
\* goes on to the next parser on a backtracking error only
integer(text) ==
    LET hex == Prefixed(text, << "0", "x" >>, HexDigits, 16)
        bin == Prefixed(text, << "0", "b" >>, BinDigits, 2)
        oct == Prefixed(text, << "0", "o" >>, OctDigits, 8)
        dec == cut_err(Digits(text, DecDigits, 10))
    IN  IF hex.kind # "Backtrack" THEN hex
        ELSE IF bin.kind # "Backtrack" THEN bin
        ELSE IF oct.kind # "Backtrack" THEN oct
        ELSE dec

\* fn decimal_integer: the parser of loop counts and switch weights
decimal_integer(text) == Digits(text, DecDigits, 10)

RECURSIVE Texts(_)
Texts(n) ==
    IF n = 0
    THEN {<< >>}
    ELSE LET shorter == Texts(n - 1)
         IN  shorter \cup {Append(t, c) : t \in shorter, c \in Chars}

InitLexer ==
    /\ cfg \in {c \in Configs : c.WAYS = 1 /\ c.SETS = 2 /\ c.LINE_SIZE = 2}
    /\ pc = "start"
    /\ cache = NoCache
    /\ source = NoSource
    /\ parsed = "none"
    /\ file = EmptyFile
    /\ run = 0
    /\ trace_idx = 0
    /\ queue = << >>
    /\ rng = 0
    /\ addresses = << >>
    /\ ip = 0
    /\ i = 0
    /\ hit = TRUE
    /\ hit_count = 0
    /\ miss_count = 0
    /\ results = << >>
    /\ lastResult = NoResult
    /\ lastAddress = 0
    /\ robin = NoRobin
    /\ output = << >>
    /\ input \in Texts(MaxLiteralLen)
    /\ lexed = NotLexed
    /\ wide = NoCache
    /\ nAccess = 0
    /\ recent = << >>
    /\ resetFrom = "none"
    /\ accLog = << >>
    /\ choices = << >>
    /\ log = << >>

lexFrame == << cfg, pc, cache, source, parsed, file, run, trace_idx, queue, rng,
               addresses, ip, i, hit, hit_count, miss_count, results, lastResult,
               lastAddress, robin, output, input, wide, nAccess, recent, resetFrom,
               accLog, choices, log >>

\* `input` stands where a range has an address or an instruction length
LexInteger ==
    /\ lexed.integer.kind = "none"
    /\ lexed' = [lexed EXCEPT !.integer = integer(input)]
    /\ UNCHANGED lexFrame

\* `input` stands where a loop has its count or a switch case its weight
LexDecimalInteger ==
    /\ lexed.decimal_integer.kind = "none"
    /\ lexed' = [lexed EXCEPT !.decimal_integer = decimal_integer(input)]
    /\ UNCHANGED lexFrame

NextLexer ==
    \/ LexInteger
    \/ LexDecimalInteger

SpecLexer == InitLexer /\ [][NextLexer]_vars

-----------------------------------------------------------------------------
(* Properties of the integer parsers *)

\* the value of a digit string in a radix, by the weight of each position
PositionalValue(digits, radix) ==
    LET n == Len(digits)
        S[k \in 0 .. n] ==
            IF k = 0 THEN 0
            ELSE S[k - 1] + to_digit(digits[k]) * radix ^ (n - k)
    IN  S[n]

\* the text after the first n characters
Drop(text, n) == SubSeq(text, n + 1, Len(text))

\* the whole text is `prefix` followed by one or more characters of `set`
IsLiteral(text, prefix, set) ==
    /\ StartsWith(text, prefix)
    /\ Len(text) > Len(prefix)
    /\ \A k \in Len(prefix) + 1 .. Len(text) : text[k] \in set

\* the text starts with `prefix` and no character of `set` follows it
BarePrefix(text, prefix, set) ==
    /\ StartsWith(text, prefix)
    /\ Len(text) > Len(prefix) => text[Len(prefix) + 1] \notin set

\* C25: fn integer gives a literal the value of its digits in the radix of
\* its prefix (0x: 16, 0b: 2, 0o: 8, none: 10) and consumes all of it; a
\* prefix with no digit of its radix after it is an error, not the decimal 0
C25_IntegerLexer ==
    lexed.integer.kind # "none" =>
        /\ IsLiteral(input, << "0", "x" >>, HexDigits) =>
               lexed.integer = Ok(PositionalValue(Drop(input, 2), 16), << >>)
        /\ IsLiteral(input, << "0", "b" >>, BinDigits) =>
               lexed.integer = Ok(PositionalValue(Drop(input, 2), 2), << >>)
        /\ IsLiteral(input, << "0", "o" >>, OctDigits) =>
               lexed.integer = Ok(PositionalValue(Drop(input, 2), 8), << >>)
        /\ IsLiteral(input, << >>, DecDigits) =>
               lexed.integer = Ok(PositionalValue(input, 10), << >>)
        /\ (\/ BarePrefix(input, << "0", "x" >>, HexDigits)
            \/ BarePrefix(input, << "0", "b" >>, BinDigits)
            \/ BarePrefix(input, << "0", "o" >>, OctDigits)) =>
               lexed.integer.kind \notin {"Ok", "none"}

\* a hexadecimal literal of two digits, a letter among them, has been read
C25_Witness ==
    /\ IsLiteral(input, << "0", "x" >>, HexDigits)
    /\ Len(input) = 4
    /\ input[4] \in {"a", "F", "b"}
    /\ lexed.integer.kind = "Ok"
    /\ lexed.integer.value >= 16

\* the text is accepted as a whole, by the parser of range addresses and by
\* the parser of loop counts and switch weights
AcceptedAsAddress == lexed.integer.kind = "Ok" /\ lexed.integer.rest = << >>
AcceptedAsCount ==
    lexed.decimal_integer.kind = "Ok" /\ lexed.decimal_integer.rest = << >>

\* C26: every literal accepted as a range address is accepted, with the
\* same value, as a loop count and as a switch-case weight
C26_SameLexerEverywhere ==
    (lexed.integer.kind # "none" /\ lexed.decimal_integer.kind # "none"
        /\ AcceptedAsAddress)
        => /\ AcceptedAsCount
           /\ lexed.decimal_integer.value = lexed.integer.value

-----------------------------------------------------------------------------
(* Frame of a hit and of a miss *)

\* a sequence without the entries equal to w
Without(s, w) == SelectSeq(s, LAMBDA x : x # w)

\* the step is a get that returned, on the set and with the tag of its address
GetStep == nAccess' = nAccess + 1 /\ pc' # "panicked"
SetOfGet == set_index_of(cache, lastAddress')
TagOfGet == tag_of(cache, lastAddress')

-----------------------------------------------------------------------------
(* SpecGeometry: caches of power-of-two geometry, probed with addresses *)

\* the probed addresses are 0 .. MaxProbeAddr
MaxProbeAddr == 40

\* number of get calls of a probe
MaxProbes == 1

\* set counts and line sizes of the probed caches
PowerChoices == {2, 4}

GeometryConfigs ==
    [SETS : PowerChoices, WAYS : 1 .. MaxWays, LINE_SIZE : PowerChoices]

InitGeometry ==
    /\ cfg \in GeometryConfigs
    /\ pc = "start"
    /\ cache = NoCache
    /\ source = NoSource
    /\ parsed = "none"
    /\ file = EmptyFile
    /\ run = 0
    /\ trace_idx = 0
    /\ queue = << >>
    /\ rng = 0
    /\ addresses = << >>
    /\ ip = 0
    /\ i = 0
    /\ hit = TRUE
    /\ hit_count = 0
    /\ miss_count = 0
    /\ results = << >>
    /\ lastResult = NoResult
    /\ lastAddress = 0
    /\ robin = NoRobin
    /\ output = << >>
    /\ input = << >>
    /\ lexed = NotLexed
    /\ wide = NoCache
    /\ nAccess = 0
    /\ recent = << >>
    /\ resetFrom = "none"
    /\ accLog = << >>
    /\ choices = << >>
    /\ log = << >>

\* lru_cache.get(address) on a cache that has seen fewer than MaxProbes gets
Probe(address) == nAccess < MaxProbes /\ Get(address)

NextGeometry ==
    \/ New
    \/ \E address \in 0 .. MaxProbeAddr : Probe(address)

SpecGeometry == InitGeometry /\ [][NextGeometry]_vars

-----------------------------------------------------------------------------
(* Properties of the address split *)

Log2(n) == CHOOSE k \in 0 .. n : 2 ^ k = n

\* a >> n and a & b on naturals
ShiftRight(a, n) == a \div (2 ^ n)
RECURSIVE BitAnd(_, _)
BitAnd(a, b) ==
    IF a = 0 \/ b = 0
    THEN 0
    ELSE 2 * BitAnd(a \div 2, b \div 2) + (a % 2) * (b % 2)

\* C29: a cache built with power-of-two SETS and LINE_SIZE has
\* offset_bits = log2(LINE_SIZE), set_bits = log2(SETS), set_mask = SETS - 1;
\* a get of addr works on set (addr >> offset_bits) & set_mask, which is in
\* 0 .. SETS-1, with tag addr >> (offset_bits + set_bits); and two addresses
\* select the same line iff they agree on all bits above the offset bits
C29_AddressSplit ==
    (pc = "idle" /\ IsPowerOfTwo(cfg.SETS) /\ IsPowerOfTwo(cfg.LINE_SIZE)) =>
        LET offset_bits == Log2(cfg.LINE_SIZE)
            set_bits    == Log2(cfg.SETS)
            set_mask    == cfg.SETS - 1
            SetIndex(a) == BitAnd(ShiftRight(a, offset_bits), set_mask)
            Tag(a)      == ShiftRight(a, offset_bits + set_bits)
        IN  /\ cache.offset_width = offset_bits
            /\ cache.set_index_width = set_bits
            /\ cache.set_index_mask = set_mask
            /\ nAccess > 0 =>
                   /\ SetIndex(lastAddress) \in 0 .. cfg.SETS - 1
                   /\ set_index_of(cache, lastAddress) = SetIndex(lastAddress)
                   /\ tag_of(cache, lastAddress) = Tag(lastAddress)
                   /\ \E w \in DOMAIN cache.sets[SetIndex(lastAddress)].lines :
                          cache.sets[SetIndex(lastAddress)].lines[w].tag =
                              Some(Tag(lastAddress))
                   /\ \A b \in 0 .. MaxProbeAddr :
                          (/\ set_index_of(cache, b) = set_index_of(cache, lastAddress)
                           /\ tag_of(cache, b) = tag_of(cache, lastAddress))
                          <=> ShiftRight(b, offset_bits) =
                                  ShiftRight(lastAddress, offset_bits)

\* a cache of 4 sets and 4-byte lines has been accessed at an address with
\* offset, set index and tag all different from 0
C29_Witness ==
    /\ pc = "idle"
    /\ cfg.SETS = 4
    /\ cfg.LINE_SIZE = 4
    /\ nAccess = 1
    /\ lastAddress % 4 # 0
    /\ lastAddress \div 16 = 2
    /\ (lastAddress \div 4) % 4 = 1
    /\ \E w \in DOMAIN cache.sets[1].lines : cache.sets[1].lines[w].tag = Some(2)

-----------------------------------------------------------------------------
(* Properties of loop expansion *)

\* What a block emits, op after op: st holds the generator, the instructions
\* emitted and the cases drawn so far. A loop is `count` emissions of its
\* body, one after the other; the ops after it start from where the last
\* iteration ended.
RECURSIVE EmitBlock(_, _, _)
RECURSIVE EmitTimes(_, _, _, _)

EmitOp(functions, op, st) ==
    CASE op.kind = "Range" ->
            [st EXCEPT !.out = st.out \o RangeInstrs(op)]
      [] op.kind = "FunctionCall" ->
            EmitBlock(functions, functions[op.function_name].block, st)
      [] op.kind = "Loop" ->
            EmitTimes(functions, op.block, op.count, st)
      [] op.kind = "Switch" ->
            LET random == random_range(st.rng, TotalWeights(op.cases))
                picked == SwitchPick(op.cases, random)
                drawn  == [st EXCEPT !.rng = rng_next(st.rng),
                                     !.picks = Append(st.picks, picked)]
            IN  IF picked = 0
                THEN drawn
                ELSE EmitBlock(functions, op.cases[picked].block, drawn)

EmitBlock(functions, block, st) ==
    IF block = << >>
    THEN st
    ELSE EmitBlock(functions, Tail(block), EmitOp(functions, Head(block), st))

EmitTimes(functions, body, n, st) ==
    IF n = 0
    THEN st
    ELSE EmitTimes(functions, body, n - 1, EmitBlock(functions, body, st))

EmitTrace(functions, block) ==
    EmitBlock(functions, block,
              [rng |-> seed_from_u64(0), out |-> << >>, picks |-> << >>])

\* C30: a loop emits `count` consecutive expansions of its body, in full
\* before any op that follows it in its block, nothing when count is 0, and
\* a switch in the body is drawn once per iteration: the instructions and the
\* draws of an expanded trace are those of its block read in that way
C30_LoopExpansion ==
    (pc = "fold" /\ trace_idx \in DOMAIN file.traces) =>
        LET emitted == EmitTrace(file.functions, file.traces[trace_idx].block)
        IN  /\ addresses = emitted.out
            /\ choices = emitted.picks

\* trace x, loop(2) { f() } followed by a range, has been expanded: the two
\* iterations drew different cases and the range after the loop comes last
C30_Witness ==
    /\ pc = "fold"
    /\ trace_idx = 1
    /\ file.traces[1].block[1].kind = "Loop"
    /\ file.traces[1].block[1].count = 2
    /\ Len(choices) = 2
    /\ choices[1] # choices[2]
    /\ Len(addresses) > 4
    /\ SubSeq(addresses, Len(addresses) - 1, Len(addresses)) =
           RangeInstrs(file.traces[1].block[2])

-----------------------------------------------------------------------------
(* SpecSwitch: Trace::into_iter of a trace that is one switch, for every
   value random_range(0..=total_weights) can return *)

\* number of cases of the switch
MaxCases == 3

\* the cases carry the weights ws, case k emits the instruction at address k
SwitchOf(ws) ==
    SwitchOp([k \in 1 .. Len(ws) |->
                 SwitchCase(ws[k], << RangeOp(k, 8, k + 1) >>)])

WeightLists ==
    UNION {[1 .. n -> 0 .. MaxWeight + 1] : n \in 1 .. MaxCases}

SwitchFiles ==
    {[functions |-> << >>,
      traces    |-> << [name |-> "s", block |-> << SwitchOf(ws) >>] >>] :
        ws \in WeightLists}

\* into_iter has seeded the generator and built the work stack
InitSwitch ==
    /\ cfg \in {c \in Configs : c.SETS = 2 /\ c.WAYS = 1 /\ c.LINE_SIZE = 2}
    /\ pc = "expand"
    /\ cache = NoCache
    /\ source = NoSource
    /\ parsed = "none"
    /\ file \in SwitchFiles
    /\ run = 0
    /\ trace_idx = 1
    /\ queue = Reverse(file.traces[1].block)
    /\ rng = seed_from_u64(0)
    /\ addresses = << >>
    /\ ip = 0
    /\ i = 0
    /\ hit = TRUE
    /\ hit_count = 0
    /\ miss_count = 0
    /\ results = << >>
    /\ lastResult = NoResult
    /\ lastAddress = 0
    /\ robin = NoRobin
    /\ output = << >>
    /\ input = << >>
    /\ lexed = NotLexed
    /\ wide = NoCache
    /\ nAccess = 0
    /\ recent = << >>
    /\ resetFrom = "none"
    /\ accLog = << >>
    /\ choices = << >>
    /\ log = << >>

\* Op::Switch when random_range returns `random`
ExpandSwitchDrawn(random) ==
    /\ pc = "expand"
    /\ queue # << >>
    /\ Top.kind = "Switch"
    /\ LET picked == SwitchPick(Top.cases, random)
       IN  /\ queue' = IF picked = 0
                       THEN Popped
                       ELSE Popped \o Reverse(Top.cases[picked].block)
           /\ choices' = Append(choices, picked)
    /\ rng' = rng_next(rng)
    /\ UNCHANGED << pc, addresses >>
    /\ UNCHANGED expandFrame

NextSwitch ==
    \/ \E random \in 0 .. MaxCases * (MaxWeight + 1) :
           /\ pc = "expand"
           /\ queue # << >>
           /\ Top.kind = "Switch"
           /\ random <= TotalWeights(Top.cases)
           /\ ExpandSwitchDrawn(random)
    \/ ExpandRange
    \/ IntoIterReturn

SpecSwitch == InitSwitch /\ [][NextSwitch]_vars

-----------------------------------------------------------------------------
(* Properties of the weighted selection *)

\* the cases in ascending order of weight, cases of equal weight in source
\* order
StableAscending(cases) ==
    LET n == Len(cases)
    IN  CHOOSE p \in [1 .. n -> 1 .. n] :
            \A a, b \in 1 .. n :
                a < b => \/ cases[p[a]].weight < cases[p[b]].weight
                         \/ /\ cases[p[a]].weight = cases[p[b]].weight
                            /\ p[a] < p[b]

RECURSIVE RunningSum(_, _, _)
RunningSum(cases, p, k) ==
    IF k = 0 THEN 0 ELSE cases[p[k]].weight + RunningSum(cases, p, k - 1)

\* the positions of the order p whose running sum is at least r
Reaching(cases, p, r) ==
    {k \in 1 .. Len(cases) : RunningSum(cases, p, k) >= r}

\* c is the case at the first such position
IsFirstReaching(cases, p, r, c) ==
    /\ Reaching(cases, p, r) # {}
    /\ c = p[Min(Reaching(cases, p, r))]

AtSwitch == pc = "expand" /\ queue # << >> /\ Top.kind = "Switch"

\* C31: the expansion of a switch pushes the body of exactly one case; for
\* every draw r in 0 .. T, T the sum of the weights, the case chosen is the
\* first in stable ascending order of weight whose running sum is >= r, so
\* the walk always ends with one case
C31_SwitchPicksOne ==
    [][AtSwitch =>
        LET cases == Top.cases
            p     == StableAscending(cases)
            T     == RunningSum(cases, p, Len(cases))
        IN  /\ TotalWeights(cases) = T
            /\ \A r \in 0 .. T :
                   /\ SwitchPick(cases, r) \in 1 .. Len(cases)
                   /\ IsFirstReaching(cases, p, r, SwitchPick(cases, r))
            /\ \E r \in 0 .. T :
                   \E c \in 1 .. Len(cases) :
                       /\ IsFirstReaching(cases, p, r, c)
                       /\ choices' = Append(choices, c)
                       /\ queue' = Popped \o Reverse(cases[c].block)
                       /\ \A d \in 1 .. Len(cases) :
                              d # c => queue' # Popped \o Reverse(cases[d].block)
       ]_vars

\* the switch with weights 2, 0, 1 has drawn its total: the case chosen is
\* the first in source order, the last in order of weight, and its body has
\* been expanded
C31_Witness ==
    /\ pc = "fold"
    /\ Len(file.traces[1].block) = 1
    /\ file.traces[1].block[1].kind = "Switch"
    /\ Len(file.traces[1].block[1].cases) = 3
    /\ file.traces[1].block[1].cases[1].weight = 2
    /\ file.traces[1].block[1].cases[2].weight = 0
    /\ file.traces[1].block[1].cases[3].weight = 1
    /\ choices = << 1 >>
    /\ addresses = << Instruction(1, 8) >>

-----------------------------------------------------------------------------
(* Properties of the sets of a cache *)

\* C32: a get of an address of set i changes set i only: every other set
\* has the same lines and the same LRU order after the get as before it,
\* whether the get is a Hit or a Miss
C32_OtherSetsUnchanged ==
    [][GetStep =>
        /\ DOMAIN cache'.sets = DOMAIN cache.sets
        /\ \A s \in DOMAIN cache.sets \ {SetOfGet} :
               /\ cache'.sets[s].lines = cache.sets[s].lines
               /\ cache'.sets[s].lru = cache.sets[s].lru]_vars

\* a miss has replaced a filled way of one set while the other set of the
\* cache holds a line
C32_Witness ==
    /\ pc = "idle"
    /\ cfg.SETS = 2
    /\ lastResult.kind = "Miss"
    /\ lastResult.prev.some
    /\ \E w \in DOMAIN cache.sets[1 - set_index_of(cache, lastAddress)].lines :
           cache.sets[1 - set_index_of(cache, lastAddress)].lines[w].tag.some

\* the ways of a set that hold a line
OccupiedWays(set) == {w \in DOMAIN set.lines : set.lines[w].tag.some}

\* in the LRU order, front first, no occupied way is before an empty one
EmptyWaysFirst(set) ==
    \A a, b \in 1 .. Len(set.lru) :
        (a < b /\ set.lru[a] \in OccupiedWays(set))
            => set.lru[b] \in OccupiedWays(set)

MinOf(a, b) == IF a <= b THEN a ELSE b

\* C33: empty ways are filled before anything is evicted. In every state
\* the empty ways of a set are before its occupied ways in the LRU order;
\* a get never empties an occupied way; a Miss reports a prev only when the
\* set had no empty way; and the number of occupied ways is min(WAYS, misses
\* in the set since the reset): it is 0 after new and reset, a Hit keeps it
\* and a Miss in the set adds one up to WAYS
C33_EmptyWaysFirst ==
    [][/\ \A s \in DOMAIN cache'.sets : EmptyWaysFirst(cache'.sets[s])
       /\ (pc' # "panicked" /\ nAccess' = 0) =>
              \A s \in DOMAIN cache'.sets : OccupiedWays(cache'.sets[s]) = {}
       /\ GetStep =>
              LET old == cache.sets[SetOfGet]
                  new == cache'.sets[SetOfGet]
              IN  /\ \A s \in DOMAIN cache.sets :
                         OccupiedWays(cache.sets[s]) \subseteq
                             OccupiedWays(cache'.sets[s])
                  /\ (lastResult'.kind = "Miss" /\ lastResult'.prev.some)
                         => OccupiedWays(old) = DOMAIN old.lines
                  /\ lastResult'.kind = "Miss" =>
                         Cardinality(OccupiedWays(new)) =
                             MinOf(cfg.WAYS, Cardinality(OccupiedWays(old)) + 1)
                  /\ lastResult' = Hit =>
                         OccupiedWays(new) = OccupiedWays(old)
      ]_vars

\* the third miss in a 2-way set is the first to evict: both ways were
\* filled by the two misses before it
C33_Witness ==
    /\ pc = "idle"
    /\ cfg.WAYS = 2
    /\ nAccess = 3
    /\ lastResult.kind = "Miss"
    /\ lastResult.prev.some
    /\ Len(recent[set_index_of(cache, lastAddress)]) = 3
    /\ OccupiedWays(cache.sets[set_index_of(cache, lastAddress)]) = {0, 1}

\* C34: every line agrees with its place: it has a tag iff it has a stored
\* address, the stored address has the tag of the line and the index of the
\* set that holds the line; so the prev of a Miss is an address of the set
\* of the accessed address, with another tag
C34_LineConsistency ==
    /\ \A s \in DOMAIN cache.sets :
           \A w \in DOMAIN cache.sets[s].lines :
               LET line == cache.sets[s].lines[w]
               IN  /\ line.tag.some <=> line.address.some
                   /\ line.address.some =>
                          /\ tag_of(cache, line.address.value) = line.tag.value
                          /\ set_index_of(cache, line.address.value) = s
    /\ (pc # "panicked" /\ lastResult.kind = "Miss" /\ lastResult.prev.some) =>
           /\ set_index_of(cache, lastResult.prev.value) =
                  set_index_of(cache, lastAddress)
           /\ tag_of(cache, lastResult.prev.value) # tag_of(cache, lastAddress)

\* in a cache with 2-byte lines, a miss at an odd address has evicted a line
\* that was stored with an odd address, and the other way of the set holds
\* a third line
C34_Witness ==
    /\ pc = "idle"
    /\ cfg.LINE_SIZE = 2
    /\ cfg.WAYS = 2
    /\ lastResult.kind = "Miss"
    /\ lastResult.prev.some
    /\ lastAddress % 2 = 1
    /\ lastResult.prev.value % 2 = 1
    /\ LET set == cache.sets[set_index_of(cache, lastAddress)]
       IN  \A w \in DOMAIN set.lines :
               /\ set.lines[w].address.some
               /\ set.lines[w].address.value # lastResult.prev.value

-----------------------------------------------------------------------------
(* SpecInclusion: two caches of the same SETS and LINE_SIZE, `cache` with
   WAYS ways and `wide` with more, given the same get and reset calls *)

\* the accessed addresses are the line starts in 0 .. MaxPairAddr
MaxPairAddr == 12

\* number of get calls after a reset
MaxPairGets == 5

PairConfigs == {c \in Configs : c.SETS = 2 /\ c.LINE_SIZE = 2}

InitInclusion ==
    /\ cfg \in PairConfigs
    /\ pc = "start"
    /\ cache = NoCache
    /\ source = NoSource
    /\ parsed = "none"
    /\ file = EmptyFile
    /\ run = 0
    /\ trace_idx = 0
    /\ queue = << >>
    /\ rng = 0
    /\ addresses = << >>
    /\ ip = 0
    /\ i = 0
    /\ hit = TRUE
    /\ hit_count = 0
    /\ miss_count = 0
    /\ results = << >>
    /\ lastResult = NoResult
    /\ lastAddress = 0
    /\ robin = NoRobin
    /\ output = << >>
    /\ input = << >>
    /\ lexed = NotLexed
    /\ wide = NoCache
    /\ nAccess = 0
    /\ recent = << >>
    /\ resetFrom = "none"
    /\ accLog = << >>
    /\ choices = << >>
    /\ log = << >>

pairFrame == << cfg, source, parsed, robin, output, input, lexed, recent,
                resetFrom >>

\* LruCache::<SETS, WAYS, LINE_SIZE>::new() and
\* LruCache::<SETS, ways, LINE_SIZE>::new()
NewBoth(ways) ==
    /\ pc = "start"
    /\ LruCache_new_ok(cfg)
    /\ LruCache_new_ok([cfg EXCEPT !.WAYS = ways])
    /\ cache' = LruCache_new(cfg)
    /\ wide' = LruCache_new([cfg EXCEPT !.WAYS = ways])
    /\ pc' = "idle"
    /\ UNCHANGED << lastResult, lastAddress, nAccess >>
    /\ UNCHANGED pairFrame
    /\ UNCHANGED simVars

\* get(address) on both caches
GetBoth(address) ==
    /\ pc = "idle"
    /\ nAccess < MaxPairGets
    /\ LET r == LruCache_get(cache, address)
           v == LruCache_get(wide, address)
       IN  /\ cache' = r.cache
           /\ wide' = v.cache
           /\ lastResult' = r.result
           /\ pc' = IF r.result = Panic \/ v.result = Panic
                    THEN "panicked"
                    ELSE "idle"
    /\ lastAddress' = address
    /\ nAccess' = nAccess + 1
    /\ UNCHANGED pairFrame
    /\ UNCHANGED simVars

\* reset() on both caches
ResetBoth ==
    /\ pc = "idle"
    /\ cache' = LruCache_reset(cache)
    /\ wide' = LruCache_reset(wide)
    /\ lastResult' = NoResult
    /\ lastAddress' = 0
    /\ nAccess' = 0
    /\ UNCHANGED pc
    /\ UNCHANGED pairFrame
    /\ UNCHANGED simVars

NextInclusion ==
    \/ \E ways \in 1 .. MaxWays + 1 : cfg.WAYS < ways /\ NewBoth(ways)
    \/ \E address \in 0 .. MaxPairAddr :
           address % cfg.LINE_SIZE = 0 /\ GetBoth(address)
    \/ ResetBoth

SpecInclusion == InitInclusion /\ [][NextInclusion]_vars

-----------------------------------------------------------------------------
(* Properties of two caches that differ in WAYS *)

ResidentTags(set) == {set.lines[w].tag.value : w \in OccupiedWays(set)}

WaysOf(ch) == Cardinality(DOMAIN ch.sets[0].lines)

\* C35: with the same SETS and LINE_SIZE and the same gets since the reset,
\* a get that is a Hit in the cache with W ways is a Hit in the cache with
\* W' > W ways, and after every step the tags held by a set of the W-way
\* cache are among the tags held by the same set of the W'-way cache
C35_LruInclusion ==
    [][pc' = "idle" =>
        /\ WaysOf(cache') < WaysOf(wide')
        /\ DOMAIN cache'.sets = DOMAIN wide'.sets
        /\ \A s \in DOMAIN cache'.sets :
               ResidentTags(cache'.sets[s]) \subseteq ResidentTags(wide'.sets[s])
        /\ (GetStep /\ lastResult' = Hit) =>
               LruCache_get(wide, lastAddress').result = Hit
      ]_vars

\* a 2-way and a 3-way cache after the same gets: set 0 of the 3-way cache
\* is full and holds a tag that the 2-way cache has evicted, and the last
\* get was a Hit in the 2-way cache
C35_Witness ==
    /\ pc = "idle"
    /\ WaysOf(cache) = 2
    /\ WaysOf(wide) = 3
    /\ nAccess >= 4
    /\ lastResult = Hit
    /\ set_index_of(cache, lastAddress) = 0
    /\ Cardinality(ResidentTags(cache.sets[0])) = 2
    /\ Cardinality(ResidentTags(wide.sets[0])) = 3

====
